---- MODULE Spec2Model ----
(***************************************************************************)
(* MediQueue: the patient/room store and the client-side service that      *)
(* registers patients, assigns rooms and discharges patients.              *)
(*                                                                         *)
(* The store (Firestore) holds the collections patients, rooms and         *)
(* audit_logs.  Every service function is a sequence of awaited store      *)
(* calls; one action of this model is one awaited store call of one        *)
(* client, so the calls of different clients interleave between awaits.    *)
(* A store call may fail (the promise rejects); the service functions      *)
(* catch the rejection and return {success: false, message}.               *)
(*                                                                         *)
(* assignRoom and dischargePatient follow public/sampleFirebase.js.  The   *)
(* assignRoom of public/firebase-service.js makes the same two updateDoc   *)
(* calls in the same order without the initial getDoc and without writing  *)
(* assignedRoomNumber; its dischargePatient is the same.                   *)
(***************************************************************************)
EXTENDS Integers, FiniteSets, Sequences, TLC

\* ------------------------------------------------------------------ bounds
MaxPatients == 2      \* patient documents ever created (ids are never reused)
NumClients == 2       \* browser sessions using the service concurrently
NumRooms == 2         \* rooms seeded at startup

\* --------------------------------------------------------------- constants
Null == 0             \* the null document reference
ServerTime == 1       \* a resolved serverTimestamp()

Clients == 1..NumClients
RoomIds == 1..NumRooms
PatientIds == 1..MaxPatients
NoSuchRoom == NumRooms + 1     \* a room id that resolves to no document
NullStr == "null"              \* null in a string-valued field
Names == {"Jane", "Ravi"}
RoomNumbers == <<"R1", "R2", "R3", "R4", "R5", "R6",
                 "R7", "R8", "R9", "R10", "R11", "R12">>
Statuses == {"waiting", "in-treatment", "discharged"}

VARIABLES
    patients,   \* collection patients: id -> document
    rooms,      \* collection rooms: id -> document
    nextId,     \* the next patient id the store assigns
    pc,         \* per client: the awaited store call its service function is at
    call,       \* per client: the arguments and locals of its current/last call
    result      \* per client: what its last call returned

vars == <<patients, rooms, nextId, pc, call, result>>

\* ------------------------------------------------------------- documents
\* firebase-service.js addPatient: the document of a newly registered patient
\* (assignedRoomNumber is not set on it until assignRoom writes it).
NewPatient(name) ==
    [name |-> name, status |-> "waiting",
     assignedRoom |-> Null, assignedRoomNumber |-> NullStr]

\* NewRoom with the time of creation stored in assignedTime.
NewRoomTimed(roomNumber) ==
    [roomNumber |-> roomNumber, status |-> "available",
     assignedPatientId |-> Null, assignedPatientName |-> NullStr,
     assignedTime |-> ServerTime]

\* addRoom: the document of a new room.
NewRoom(roomNumber) ==
    [roomNumber |-> roomNumber, status |-> "available",
     assignedPatientId |-> Null, assignedPatientName |-> NullStr,
     assignedTime |-> Null]

\* assignRoom: the fields written to the patient document.
AssignPatientFields(doc, roomId, roomNumber) ==
    [doc EXCEPT !.assignedRoom = roomId,
                !.assignedRoomNumber = roomNumber,
                !.status = "in-treatment"]

\* AssignRoomFields with the status write left out.
AssignRoomFieldsNoStatus(doc, patientId, patientName) ==
    [doc EXCEPT !.assignedPatientId = patientId,
                !.assignedPatientName = patientName,
                !.assignedTime = ServerTime]

\* assignRoom: the fields written to the room document.
AssignRoomFields(doc, patientId, patientName) ==
    [doc EXCEPT !.status = "occupied",
                !.assignedPatientId = patientId,
                !.assignedPatientName = patientName,
                !.assignedTime = ServerTime]

\* ReleaseRoomFields with assignedTime left as it was.
ReleaseRoomFieldsKeepsTime(doc) ==
    [doc EXCEPT !.status = "available",
                !.assignedPatientId = Null,
                !.assignedPatientName = NullStr]

\* dischargePatient: the fields written to the room document (the release).
ReleaseRoomFields(doc) ==
    [doc EXCEPT !.status = "available",
                !.assignedPatientId = Null,
                !.assignedPatientName = NullStr,
                !.assignedTime = Null]

\* ---------------------------------------------------------------- results
Success(msg) == [success |-> TRUE, message |-> msg]
Failure(msg) == [success |-> FALSE, message |-> msg]
NoResult == [success |-> FALSE, message |-> "no call yet"]
\* error.message of a rejected store call
StoreUnavailable == "unavailable"
PatientMissing == "No document to update: patients"
RoomMissing == "No document to update: rooms"

\* What a call found when it was made (history, read by no action): the
\* patient document, as a set that is empty when there was none, and the
\* status of the room.
PatientAt(p) == IF p \in DOMAIN patients THEN {patients[p]} ELSE {}
RoomStatusAt(r) == IF r \in DOMAIN rooms THEN rooms[r].status ELSE NullStr

NoCall ==
    [op |-> "none", handler |-> NullStr,
     patientId |-> Null, roomId |-> Null, patientName |-> NullStr,
     roomNumber |-> NullStr, logged |-> NullStr,
     prePatient |-> {}, preRoomStatus |-> NullStr]

NewCall(op, p, r, name) ==
    [op |-> op, handler |-> NullStr,
     patientId |-> p, roomId |-> r, patientName |-> name,
     roomNumber |-> NullStr, logged |-> NullStr,
     prePatient |-> PatientAt(p), preRoomStatus |-> RoomStatusAt(r)]

\* The name the caller passes with a patient id: the name shown with the
\* patient in the caller's view.
NameOf(p) == IF p \in DOMAIN patients THEN patients[p].name ELSE NullStr

\* logAudit: addDoc to audit_logs; a failure is caught and only logged.  The
\* collection is append-only and read by no operation: the entry a call wrote
\* is kept with the call (logged), null when the write failed.
LogAudit(c, action) ==
    \/ call' = [call EXCEPT ![c].logged = action]
    \/ call' = call

\* The service function returns res to its caller.
Return(c, res) ==
    /\ pc' = [pc EXCEPT ![c] = "done"]
    /\ result' = [result EXCEPT ![c] = res]

Goto(c, label) ==
    /\ pc' = [pc EXCEPT ![c] = label]
    /\ UNCHANGED result

\* ------------------------------------------------------------------- Init
\* The state after startup seeding: the rooms exist and are available, no
\* patient is registered, no client has a call in progress.
Init ==
    /\ patients = <<>>
    /\ rooms = [r \in RoomIds |-> NewRoom(RoomNumbers[r])]
    /\ nextId = 1
    /\ pc = [c \in Clients |-> "idle"]
    /\ call = [c \in Clients |-> NoCall]
    /\ result = [c \in Clients |-> NoResult]

\* ------------------------------------------------------------- addPatient
\* addPatient(patientData), up to the completion of
\* await addDoc(collection(db, 'patients'), patient)
AddPatient(c, name) ==
    /\ pc[c] = "idle"
    /\ nextId <= MaxPatients
    /\ \/ /\ patients' = [p \in DOMAIN patients \cup {nextId} |->
                            IF p = nextId THEN NewPatient(name) ELSE patients[p]]
          /\ nextId' = nextId + 1
          /\ call' = [call EXCEPT ![c] = NewCall("addPatient", nextId, Null, name)]
          /\ Goto(c, "add_audit")
       \/ /\ call' = [call EXCEPT ![c] = NewCall("addPatient", Null, Null, name)]
          /\ Return(c, Failure(StoreUnavailable))
          /\ UNCHANGED <<patients, nextId>>
    /\ UNCHANGED rooms

\* await logAudit('registered', docRef.id, patient.name); return success
AddPatientAudit(c) ==
    /\ pc[c] = "add_audit"
    /\ LogAudit(c, "registered")
    /\ Return(c, Success("Patient registered successfully"))
    /\ UNCHANGED <<patients, rooms, nextId>>

\* ------------------------------------------------------------- assignRoom
\* assignRoom(patientId, roomId, patientName), up to the completion of
\*   const roomDoc = await getDoc(doc(db, 'rooms', roomId));
\*   const roomNumber = roomDoc.exists() ? roomDoc.data().roomNumber : null;
\* patientId is the id of a patient that was registered (it may have been
\* removed since), roomId a seeded room or an id that resolves to nothing.
AssignRoom(c, p, r) ==
    /\ pc[c] = "idle"
    /\ p \in 1..(nextId - 1)
    /\ \/ /\ call' = [call EXCEPT ![c] =
                [NewCall("assignRoom", p, r, NameOf(p)) EXCEPT !.roomNumber =
                    IF r \in DOMAIN rooms THEN rooms[r].roomNumber ELSE NullStr]]
          /\ Goto(c, "as_updPatient")
       \/ /\ call' = [call EXCEPT ![c] = NewCall("assignRoom", p, r, NameOf(p))]
          /\ Return(c, Failure(StoreUnavailable))
    /\ UNCHANGED <<patients, rooms, nextId>>

\* await updateDoc(patientRef, {assignedRoom, assignedRoomNumber, status})
AssignRoomUpdatePatient(c) ==
    /\ pc[c] = "as_updPatient"
    /\ LET p == call[c].patientId IN
       \/ /\ p \in DOMAIN patients
          /\ patients' = [patients EXCEPT ![p] =
                AssignPatientFields(@, call[c].roomId, call[c].roomNumber)]
          /\ Goto(c, "as_updRoom")
       \/ /\ p \notin DOMAIN patients
          /\ Return(c, Failure(PatientMissing))
          /\ UNCHANGED patients
       \/ /\ Return(c, Failure(StoreUnavailable))
          /\ UNCHANGED patients
    /\ UNCHANGED <<rooms, nextId, call>>

\* AssignRoomUpdateRoom with the audit entry written ahead of the room.
AssignRoomUpdateRoomAuditsFirst(c) ==
    /\ pc[c] = "as_updRoom"
    /\ call' = [call EXCEPT ![c].logged = "assigned_room"]
    /\ LET r == call[c].roomId IN
       \/ /\ r \in DOMAIN rooms
          /\ rooms' = [rooms EXCEPT ![r] =
                AssignRoomFields(@, call[c].patientId, call[c].patientName)]
          /\ Goto(c, "as_audit")
       \/ /\ r \notin DOMAIN rooms
          /\ Return(c, Failure(RoomMissing))
          /\ UNCHANGED rooms
       \/ /\ Return(c, Failure(StoreUnavailable))
          /\ UNCHANGED rooms
    /\ UNCHANGED <<patients, nextId>>

\* await updateDoc(roomRef, {status, assignedPatientId, assignedPatientName,
\* assignedTime})
AssignRoomUpdateRoom(c) ==
    /\ pc[c] = "as_updRoom"
    /\ LET r == call[c].roomId IN
       \/ /\ r \in DOMAIN rooms
          /\ rooms' = [rooms EXCEPT ![r] =
                AssignRoomFields(@, call[c].patientId, call[c].patientName)]
          /\ Goto(c, "as_audit")
       \/ /\ r \notin DOMAIN rooms
          /\ Return(c, Failure(RoomMissing))
          /\ UNCHANGED rooms
       \/ /\ Return(c, Failure(StoreUnavailable))
          /\ UNCHANGED rooms
    /\ UNCHANGED <<patients, nextId, call>>

\* AssignRoomAudit with a failed audit write failing the call.
AssignRoomAuditPropagates(c) ==
    /\ pc[c] = "as_audit"
    /\ \/ /\ call' = [call EXCEPT ![c].logged = "assigned_room"]
          /\ Return(c, Success("Room assigned successfully"))
       \/ /\ call' = call
          /\ Return(c, Failure(StoreUnavailable))
    /\ UNCHANGED <<patients, rooms, nextId>>

\* await logAudit('assigned_room', patientId, patientName); return success
AssignRoomAudit(c) ==
    /\ pc[c] = "as_audit"
    /\ LogAudit(c, "assigned_room")
    /\ Return(c, Success("Room assigned successfully"))
    /\ UNCHANGED <<patients, rooms, nextId>>

\* ------------------------------------------------------- dischargePatient
\* dischargePatient(patientId, patientName, roomId), up to the completion of
\*   await deleteDoc(doc(db, 'patients', patientId));
\* Deleting a document that does not exist succeeds.  roomId is null when
\* the caller found no room on the patient.
DeletePatientDoc(c, p, r) ==
    /\ \/ /\ patients' = [q \in DOMAIN patients \ {p} |-> patients[q]]
          /\ IF r # Null THEN Goto(c, "dis_updRoom") ELSE Goto(c, "dis_audit")
       \/ /\ Return(c, Failure(StoreUnavailable))
          /\ UNCHANGED patients
    /\ UNCHANGED <<rooms, nextId>>

DischargePatient(c, p, r) ==
    /\ pc[c] = "idle"
    /\ p \in 1..(nextId - 1)
    /\ call' = [call EXCEPT ![c] = NewCall("dischargePatient", p, r, NameOf(p))]
    /\ DeletePatientDoc(c, p, r)

\* if (roomId) await updateDoc(roomRef, {status: 'available', ...: null})
DischargeUpdateRoom(c) ==
    /\ pc[c] = "dis_updRoom"
    /\ LET r == call[c].roomId IN
       \/ /\ r \in DOMAIN rooms
          /\ rooms' = [rooms EXCEPT ![r] = ReleaseRoomFields(@)]
          /\ Goto(c, "dis_audit")
       \/ /\ r \notin DOMAIN rooms
          /\ Return(c, Failure(RoomMissing))
          /\ UNCHANGED rooms
       \/ /\ Return(c, Failure(StoreUnavailable))
          /\ UNCHANGED rooms
    /\ UNCHANGED <<patients, nextId, call>>

\* await logAudit('discharged', patientId, patientName); return success
DischargeAudit(c) ==
    /\ pc[c] = "dis_audit"
    /\ LogAudit(c, "discharged")
    /\ Return(c, Success("Patient discharged and removed successfully"))
    /\ UNCHANGED <<patients, rooms, nextId>>

\* ------------------------------------------------------- confirmDischarge
\* The Discharge button of a queue entry: confirmDischarge(patientId,
\* patientName), up to the completion of
\*   const patientResult = await getPatientById(patientId);
\* roomId is the patient's assignedRoom when the read succeeded and found
\* one, and null otherwise (no such patient, or the read was rejected:
\* getPatientById then returns {success: false}).
ConfirmDischarge(c, p) ==
    /\ pc[c] = "idle"
    /\ p \in 1..(nextId - 1)
    /\ \E roomId \in {Null} \cup {d.assignedRoom : d \in PatientAt(p)} :
          call' = [call EXCEPT ![c] =
                     [NoCall EXCEPT !.handler = "confirmDischarge",
                                    !.patientId = p,
                                    !.patientName = NameOf(p),
                                    !.roomId = roomId]]
    /\ Goto(c, "cd_confirm")
    /\ UNCHANGED <<patients, rooms, nextId>>

\* const confirmed = await showConfirmDischarge(...): when confirmed, the
\* handler calls dischargePatient(patientId, patientName, roomId); otherwise
\* it does nothing more.
ConfirmDischargeCall(c) ==
    /\ pc[c] = "cd_confirm"
    /\ \/ LET p == call[c].patientId
              r == call[c].roomId
          IN  /\ call' = [call EXCEPT ![c] =
                    [NewCall("dischargePatient", p, r, call[c].patientName)
                        EXCEPT !.handler = "confirmDischarge"]]
              /\ DeletePatientDoc(c, p, r)
       \/ /\ pc' = [pc EXCEPT ![c] = "idle"]
          /\ call' = [call EXCEPT ![c] = NoCall]
          /\ UNCHANGED <<patients, rooms, nextId, result>>

\* ---------------------------------------------------- updatePatientStatus
\* updatePatientStatus(patientId, status): one updateDoc of the status field.
UpdatePatientStatus(c, p, status) ==
    /\ pc[c] = "idle"
    /\ p \in 1..(nextId - 1)
    /\ call' = [call EXCEPT ![c] = NewCall("updatePatientStatus", p, Null, NameOf(p))]
    /\ \/ /\ p \in DOMAIN patients
          /\ patients' = [patients EXCEPT ![p].status = status]
          /\ Return(c, Success("Status updated successfully"))
       \/ /\ p \notin DOMAIN patients
          /\ Return(c, Failure(PatientMissing))
          /\ UNCHANGED patients
       \/ /\ Return(c, Failure(StoreUnavailable))
          /\ UNCHANGED patients
    /\ UNCHANGED <<rooms, nextId>>

\* ---------------------------------------------------------- bulkDischarge
\* functions/index.js bulkDischarge: one batch that sets status 'discharged'
\* on every listed patient; the batch commits whole or, when a listed
\* document does not exist, not at all (the callable then throws).
BulkDischarge(ids) ==
    /\ ids # {}
    /\ ids \subseteq DOMAIN patients
    /\ patients' = [p \in DOMAIN patients |->
                      IF p \in ids THEN [patients[p] EXCEPT !.status = "discharged"]
                      ELSE patients[p]]
    /\ UNCHANGED <<rooms, nextId, pc, call, result>>

\* The caller has handled the result of its call and is ready for the next.
Finish(c) ==
    /\ pc[c] = "done"
    /\ pc' = [pc EXCEPT ![c] = "idle"]
    /\ call' = [call EXCEPT ![c] = NoCall]
    /\ result' = [result EXCEPT ![c] = NoResult]
    /\ UNCHANGED <<patients, rooms, nextId>>

\* ------------------------------------------------------------------- Next
\* Registration, room assignment and discharge by concurrent clients.
Next ==
    \/ \E c \in Clients : AddPatient(c, "Jane")
    \/ \E c \in Clients : AddPatientAudit(c)
    \/ \E c \in Clients, p \in PatientIds, r \in RoomIds : AssignRoom(c, p, r)
    \/ \E c \in Clients : AssignRoomUpdatePatient(c)
    \/ \E c \in Clients : AssignRoomUpdateRoom(c)
    \/ \E c \in Clients : AssignRoomAudit(c)
    \/ \E c \in Clients, p \in PatientIds, r \in RoomIds \cup {Null} :
          DischargePatient(c, p, r)
    \/ \E c \in Clients : DischargeUpdateRoom(c)
    \/ \E c \in Clients : DischargeAudit(c)
    \/ \E c \in Clients : Finish(c)

Spec == Init /\ [][Next]_vars

\* Every exported operation, called one at a time by one caller, with every
\* argument a caller can pass (a room id that resolves to nothing included).
Caller == 1

NextService ==
    \/ \E name \in Names : AddPatient(Caller, name)
    \/ AddPatientAudit(Caller)
    \/ \E p \in PatientIds, r \in RoomIds \cup {NoSuchRoom} : AssignRoom(Caller, p, r)
    \/ AssignRoomUpdatePatient(Caller)
    \/ AssignRoomUpdateRoom(Caller)
    \/ AssignRoomAudit(Caller)
    \/ \E p \in PatientIds, r \in RoomIds \cup {NoSuchRoom, Null} :
          DischargePatient(Caller, p, r)
    \/ \E p \in PatientIds : ConfirmDischarge(Caller, p)
    \/ ConfirmDischargeCall(Caller)
    \/ DischargeUpdateRoom(Caller)
    \/ DischargeAudit(Caller)
    \/ \E p \in PatientIds, s \in Statuses : UpdatePatientStatus(Caller, p, s)
    \/ \E ids \in SUBSET PatientIds : BulkDischarge(ids)
    \/ Finish(Caller)

SpecService == Init /\ [][NextService]_vars

\* ------------------------------------------------- handleNewPatientSubmit
\* Form input: a string is the sequence of its characters.
MaxStrLen == 2
Blank == " "
FormNames ==
    UNION {[1..n -> {Blank, "a"}] : n \in 0..MaxStrLen}
FormContacts == {<<>>, <<Blank>>, <<"1">>, <<"2">>}

\* String.prototype.trim: the string without its leading and trailing
\* whitespace.
RECURSIVE TrimStart(_)
TrimStart(str) ==
    IF str # <<>> /\ Head(str) = Blank THEN TrimStart(Tail(str)) ELSE str

RECURSIVE TrimEnd(_)
TrimEnd(str) ==
    IF str # <<>> /\ str[Len(str)] = Blank
    THEN TrimEnd(SubSeq(str, 1, Len(str) - 1))
    ELSE str

Trim(str) == TrimEnd(TrimStart(str))

\* IsBlankInput on the untrimmed values.
IsBlankInputNoTrim(name, contact) == name = <<>> \/ contact = <<>>

\* const name = ...value.trim(); const contact = ...value.trim();
\* if (!name || !contact)
IsBlankInput(name, contact) == Trim(name) = <<>> \/ Trim(contact) = <<>>

ValidationMessage == "Please enter both name and contact number."
PatientExistsMessage == "Patient already exists"

\* checkIfPatientExists(name, contact): the patients whose name and contact
\* fields equal the arguments (the query has no other condition).
CheckIfPatientExists(name, contact) ==
    {p \in DOMAIN patients :
        patients[p].name = name /\ patients[p].contact = contact}

\* The locals of a submit: the raw field values, whether the duplicate
\* lookup was sent to the store, and whether it came back with an error
\* (existResult.error).
SubmitCall(name, contact, looked) ==
    [NoCall EXCEPT !.op = "handleNewPatientSubmit",
                   !.handler = "handleNewPatientSubmit",
                   !.patientName = name]
    @@ [contact |-> contact, looked |-> looked, lookupError |-> FALSE]

\* handleNewPatientSubmit(e), up to the completion of
\*   const existResult = await checkIfPatientExists(name, contact);
\* name and contact are trimmed for the validation and for the lookup; a
\* rejected lookup gives {exists: false, error} and the handler goes on.
HandleNewPatientSubmit(c, name, contact) ==
    /\ pc[c] = "idle"
    /\ nextId <= MaxPatients
    /\ IF IsBlankInput(name, contact)
       THEN /\ call' = [call EXCEPT ![c] = SubmitCall(name, contact, FALSE)]
            /\ Return(c, Failure(ValidationMessage))
       ELSE \/ /\ call' = [call EXCEPT ![c] = SubmitCall(name, contact, TRUE)]
               /\ IF CheckIfPatientExists(Trim(name), Trim(contact)) # {}
                  THEN Return(c, Failure(PatientExistsMessage))
                  ELSE Goto(c, "reg_add")
            \/ /\ call' = [call EXCEPT ![c] =
                     [SubmitCall(name, contact, TRUE) EXCEPT !.lookupError = TRUE]]
               /\ Goto(c, "reg_add")
    /\ UNCHANGED <<patients, rooms, nextId>>

\* const result = await addPatient(patientData), up to the completion of its
\* addDoc: patientData carries the untrimmed values of the form fields.
SubmitAddPatient(c) ==
    /\ pc[c] = "reg_add"
    /\ \/ /\ patients' = [p \in DOMAIN patients \cup {nextId} |->
                            IF p = nextId
                            THEN NewPatient(call[c].patientName)
                                    @@ [contact |-> call[c].contact]
                            ELSE patients[p]]
          /\ nextId' = nextId + 1
          /\ call' = [call EXCEPT ![c].op = "addPatient", ![c].patientId = nextId]
          /\ Goto(c, "add_audit")
       \/ /\ call' = [call EXCEPT ![c].op = "addPatient"]
          /\ Return(c, Failure(StoreUnavailable))
          /\ UNCHANGED <<patients, nextId>>
    /\ UNCHANGED rooms

\* Registration through the form, discharge and bulk discharge, one caller.
NextRegister ==
    \/ \E name \in FormNames, contact \in FormContacts :
          HandleNewPatientSubmit(Caller, name, contact)
    \/ SubmitAddPatient(Caller)
    \/ AddPatientAudit(Caller)
    \/ \E p \in PatientIds : ConfirmDischarge(Caller, p)
    \/ ConfirmDischargeCall(Caller)
    \/ DischargeAudit(Caller)
    \/ \E ids \in SUBSET PatientIds : BulkDischarge(ids)
    \/ Finish(Caller)

SpecRegister == Init /\ [][NextRegister]_vars

\* ------------------------------------------------------ calculatePriority
\* A value of a pure function and an exception thrown by it.
Value(v) == [value |-> v]
Throws(e) == [throws |-> e]
\* undefined, as the value of a number-valued field and as an object.
Undefined == -1
UndefinedObject == [undefined |-> TRUE]
TypeError == "TypeError"

\* obj.field: undefined when the object has no such field.
Field(obj, field) == IF field \in DOMAIN obj THEN obj[field] ELSE Undefined
\* The truthiness of a number or undefined.
Truthy(x) == x # Undefined /\ x # 0

criticalSymptoms == {"chest_pain", "breathing", "bleeding", "unconscious"}
Priorities == {"red", "yellow", "green"}
PulseLimit == 120
TemperatureLimit == 103
\* Temperatures are in tenths of a degree (parseFloat of the form field).
Tenths == 10

\* calculatePriority with the thresholds included in the urgent range.
calculatePriorityInclusive(symptoms, vitals) ==
    IF \E sym \in symptoms : sym \in criticalSymptoms THEN Value("red")
    ELSE IF "fever" \in symptoms \/ "pain" \in symptoms THEN Value("yellow")
    ELSE IF vitals = UndefinedObject THEN Throws(TypeError)
    ELSE IF \/ Truthy(Field(vitals, "pulse"))
               /\ Field(vitals, "pulse") >= PulseLimit
            \/ Truthy(Field(vitals, "temperature"))
               /\ Field(vitals, "temperature") >= TemperatureLimit * Tenths
         THEN Value("yellow")
    ELSE Value("green")

\* calculatePriority(symptoms, vitals).  The conditions are evaluated left to
\* right and stop at the first that decides; reading a field of an
\* undefined vitals throws.
calculatePriority(symptoms, vitals) ==
    IF \E sym \in symptoms : sym \in criticalSymptoms THEN Value("red")
    ELSE IF "fever" \in symptoms \/ "pain" \in symptoms THEN Value("yellow")
    ELSE IF vitals = UndefinedObject THEN Throws(TypeError)
    ELSE IF \/ Truthy(Field(vitals, "pulse"))
               /\ Field(vitals, "pulse") > PulseLimit
            \/ Truthy(Field(vitals, "temperature"))
               /\ Field(vitals, "temperature") > TemperatureLimit * Tenths
         THEN Value("yellow")
    ELSE Value("green")

\* Inputs of calculatePriority: the symptom tags of the form, and a vitals
\* object with each field present or not, or no vitals object.
SymptomTags == criticalSymptoms \cup {"fever", "pain", "nausea"}
Pulses == {0, PulseLimit - 1, PulseLimit, PulseLimit + 1}
Temperatures ==
    {0, TemperatureLimit * Tenths, TemperatureLimit * Tenths + 1,
     (TemperatureLimit + 1) * Tenths}
VitalsObjects ==
    UNION {[fields -> Pulses \cup Temperatures] :
              fields \in SUBSET {"pulse", "temperature"}}
VitalsInputs ==
    {v \in VitalsObjects :
        /\ "pulse" \in DOMAIN v => v["pulse"] \in Pulses
        /\ "temperature" \in DOMAIN v => v["temperature"] \in Temperatures}
    \cup {UndefinedObject}

PriorityCall(symptoms, vitals) ==
    [NoCall EXCEPT !.op = "calculatePriority"]
    @@ [symptoms |-> symptoms, vitals |-> vitals]

InitPriority ==
    /\ patients = <<>>
    /\ rooms = [r \in RoomIds |-> NewRoom(RoomNumbers[r])]
    /\ nextId = 1
    /\ pc = [c \in Clients |-> "idle"]
    /\ \E symptoms \in SUBSET SymptomTags, vitals \in VitalsInputs :
          call = [c \in Clients |->
                    IF c = Caller THEN PriorityCall(symptoms, vitals) ELSE NoCall]
    /\ result = [c \in Clients |-> NoResult]

CalculatePriority(c) ==
    /\ pc[c] = "idle"
    /\ call[c].op = "calculatePriority"
    /\ pc' = [pc EXCEPT ![c] = "done"]
    /\ result' = [result EXCEPT ![c] =
                    calculatePriority(call[c].symptoms, call[c].vitals)]
    /\ UNCHANGED <<patients, rooms, nextId, call>>

NextPriority == CalculatePriority(Caller)

SpecPriority == InitPriority /\ [][NextPriority]_vars

\* ------------------------------------------------------------ renderQueue
priorityOrder == [red |-> 1, yellow |-> 2, green |-> 3]

\* A check-in Timestamp is a number of microseconds; toDate() gives a Date,
\* a number of milliseconds.
MicrosPerMilli == 1000
toDate(timestamp) == timestamp \div MicrosPerMilli

\* TimeOf with a missing timestamp ordered last.
TimeOfMissingLast(patient) ==
    IF patient.checkInTime = Null
    THEN toDate(3 * MicrosPerMilli)
    ELSE toDate(patient.checkInTime)

\* a.checkInTime?.toDate?.() || new Date(0)
TimeOf(patient) ==
    IF patient.checkInTime = Null THEN 0 ELSE toDate(patient.checkInTime)

\* Compare with the newest check-in first.
CompareNewestFirst(a, b) ==
    IF priorityOrder[a.priority] # priorityOrder[b.priority]
    THEN priorityOrder[a.priority] - priorityOrder[b.priority]
    ELSE TimeOf(b) - TimeOf(a)

\* The comparator passed to sort.
Compare(a, b) ==
    IF priorityOrder[a.priority] # priorityOrder[b.priority]
    THEN priorityOrder[a.priority] - priorityOrder[b.priority]
    ELSE TimeOf(a) - TimeOf(b)

\* Array.prototype.sort with a comparator: a stable sort.  An element is
\* placed behind the elements already placed that do not compare greater.
RECURSIVE InsertSorted(_, _)
InsertSorted(x, sorted) ==
    IF sorted = <<>> THEN <<x>>
    ELSE IF Compare(sorted[Len(sorted)], x) > 0
         THEN Append(InsertSorted(x, SubSeq(sorted, 1, Len(sorted) - 1)),
                     sorted[Len(sorted)])
         ELSE Append(sorted, x)

RECURSIVE SortFrom(_, _, _)
SortFrom(list, i, sorted) ==
    IF i > Len(list) THEN sorted
    ELSE SortFrom(list, i + 1, InsertSorted(list[i], sorted))

\* const sortedPatients = [...patients].sort(...): a sorted copy.
sortedPatients(list) == SortFrom(list, 1, <<>>)

\* Inputs of renderQueue: the lists of at most MaxQueue patients; the id of
\* a patient is its place in the list.
MaxQueue == 3
CheckInTimes == {Null, MicrosPerMilli, MicrosPerMilli + 500, 2 * MicrosPerMilli}
QueueKeys == [priority : Priorities, checkInTime : CheckInTimes]
QueueInputs ==
    UNION {{[i \in 1..n |-> [id |-> i, priority |-> keys[i].priority,
                              checkInTime |-> keys[i].checkInTime]] :
               keys \in [1..n -> QueueKeys]} : n \in 0..MaxQueue}

RenderCall(list) ==
    [NoCall EXCEPT !.op = "renderQueue"] @@ [patients |-> list]

InitQueue ==
    /\ patients = <<>>
    /\ rooms = [r \in RoomIds |-> NewRoom(RoomNumbers[r])]
    /\ nextId = 1
    /\ pc = [c \in Clients |-> "idle"]
    /\ \E list \in QueueInputs :
          call = [c \in Clients |->
                    IF c = Caller THEN RenderCall(list) ELSE NoCall]
    /\ result = [c \in Clients |-> NoResult]

\* renderQueue(patients): the list that is rendered (nothing for an empty
\* list); the argument is not written.
RenderQueue(c) ==
    /\ pc[c] = "idle"
    /\ call[c].op = "renderQueue"
    /\ pc' = [pc EXCEPT ![c] = "done"]
    /\ result' = [result EXCEPT ![c] =
                    IF Len(call[c].patients) = 0 THEN Value(<<>>)
                    ELSE Value(sortedPatients(call[c].patients))]
    /\ UNCHANGED <<patients, rooms, nextId, call>>

NextQueue == RenderQueue(Caller)

SpecQueue == InitQueue /\ [][NextQueue]_vars

\* ------------------------------------------- scheduled addPatient, tokens
\* sampleFirebase.js addPatient schedules the patient: it finds the earliest
\* date with capacity, takes a token in the series of that date and the
\* patient's priority, and writes both on the document.  Date keys are
\* numbered from today.  generateTokenForDate is called but is not among the
\* sources; it follows the TokenAllocator of the specification.  (The slot
\* index and the appointment times written with them are read by no
\* operation below and are left out of the document.)
Today == 1
MaxDays == 2                   \* date keys the scan may reach
MaxScheduled == 3              \* scheduled registrations ever made

\* MAX_APPOINTMENTS_PER_DAY is configuration ("change as required", 50 as
\* shipped); it is set to DailyCapacity so that a date can fill up.
DailyCapacity == 2
MAX_APPOINTMENTS_PER_DAY == DailyCapacity

\* getCountsForDate(dateKey): the waiting patients scheduled on the date.
WaitingOn(dateKey) ==
    {p \in DOMAIN patients :
        /\ patients[p].status = "waiting"
        /\ Field(patients[p], "appointmentDate") = dateKey}

\* getCountsForDate with the total taken over two of the three classes.
getCountsForDateTwoClasses(dateKey) ==
    [total |-> Cardinality({p \in WaitingOn(dateKey) :
                               patients[p].priority \in {"red", "yellow"}}),
     red |-> Cardinality({p \in WaitingOn(dateKey) : patients[p].priority = "red"}),
     yellow |-> Cardinality({p \in WaitingOn(dateKey) : patients[p].priority = "yellow"}),
     green |-> Cardinality({p \in WaitingOn(dateKey) : patients[p].priority = "green"})]

getCountsForDate(dateKey) ==
    [total |-> Cardinality(WaitingOn(dateKey)),
     red |-> Cardinality({p \in WaitingOn(dateKey) : patients[p].priority = "red"}),
     yellow |-> Cardinality({p \in WaitingOn(dateKey) : patients[p].priority = "yellow"}),
     green |-> Cardinality({p \in WaitingOn(dateKey) : patients[p].priority = "green"})]

\* The band of a priority class: nonUrgent 100+n, urgent 200+n, critical
\* 300+n, each band as wide as the distance to the next.
TokenBase == [green |-> 100, yellow |-> 200, red |-> 300]
BandWidth == 100

\* allocate: the band base plus n, n = 1 + the number of patients of the
\* class that are waiting in the series.
TokenFor(priority, waiting) == TokenBase[priority] + 1 + waiting

generateTokenForDate(priority, dateKey) ==
    TokenFor(priority, getCountsForDate(dateKey)[priority])

ScheduledPatient(name, priority, tokenNumber, appointmentDate) ==
    NewPatient(name) @@ [priority |-> priority, tokenNumber |-> tokenNumber,
                         appointmentDate |-> appointmentDate]

\* The locals of a scheduled addPatient.  Kept with them for the record:
\* reads, the totals the scan has read, one per date from today on; and
\* overlapped, whether another client's addPatient was in progress at some
\* time during this one.
ScheduleCall(name, priority) ==
    [NoCall EXCEPT !.op = "addPatient", !.patientName = name]
        @@ [priority |-> priority, appointmentDate |-> Today,
            tokenNumber |-> Null, reads |-> <<>>, overlapped |-> FALSE]

InRegistration(c) == pc[c] \in {"sch_scan", "sch_token", "sch_add", "sch_audit"}

\* addPatient(patientData) is called; findEarliestAvailableDate(new Date())
\* starts its scan at today.
ScheduledAddPatient(c, name, priority) ==
    /\ pc[c] = "idle"
    /\ nextId <= MaxScheduled
    /\ call' = [o \in Clients |->
                  IF o = c
                  THEN [ScheduleCall(name, priority) EXCEPT !.overlapped =
                           \E other \in Clients \ {c} : InRegistration(other)]
                  ELSE IF InRegistration(o)
                       THEN [call[o] EXCEPT !.overlapped = TRUE]
                       ELSE call[o]]
    /\ Goto(c, "sch_scan")
    /\ UNCHANGED <<patients, rooms, nextId>>

\* The test of the scan with the bound included.
HasCapacityInclusive(counts) == counts.total <= MAX_APPOINTMENTS_PER_DAY

\* counts.total < MAX_APPOINTMENTS_PER_DAY
HasCapacity(counts) == counts.total < MAX_APPOINTMENTS_PER_DAY

\* findEarliestAvailableDate(new Date()) called on its own: the function is
\* exported.
CallFindEarliestAvailableDate(c) ==
    /\ pc[c] = "idle"
    /\ call' = [call EXCEPT ![c] =
                  [ScheduleCall(NullStr, NullStr)
                      EXCEPT !.op = "findEarliestAvailableDate"]]
    /\ Goto(c, "sch_scan")
    /\ UNCHANGED <<patients, rooms, nextId>>

\* One turn of the loop of findEarliestAvailableDate:
\*   const counts = await getCountsForDate(key);
\*   if (counts.total < MAX_APPOINTMENTS_PER_DAY) return key;
\*   d.setDate(d.getDate() + 1);
\* Neither function catches a rejected read: inside addPatient it ends in
\* the catch of addPatient, in a direct call it is thrown to the caller.
FindEarliestAvailableDate(c) ==
    /\ pc[c] = "sch_scan"
    /\ LET key == call[c].appointmentDate
           counts == getCountsForDate(key)
           direct == call[c].op = "findEarliestAvailableDate"
       IN
       \/ /\ HasCapacity(counts)
          /\ call' = [call EXCEPT ![c].reads = Append(@, counts.total)]
          /\ IF direct THEN Return(c, Value(key)) ELSE Goto(c, "sch_token")
       \/ /\ ~HasCapacity(counts)
          /\ key < MaxDays
          /\ call' = [call EXCEPT ![c].reads = Append(@, counts.total),
                                  ![c].appointmentDate = key + 1]
          /\ Goto(c, "sch_scan")
       \/ /\ IF direct THEN Return(c, Throws(StoreUnavailable))
             ELSE Return(c, Failure(StoreUnavailable))
          /\ UNCHANGED call
    /\ UNCHANGED <<patients, rooms, nextId>>

\* const tokenNumber = await generateTokenForDate(priority, appointmentDate)
GenerateTokenForDate(c) ==
    /\ pc[c] = "sch_token"
    /\ \/ /\ call' = [call EXCEPT ![c].tokenNumber =
                  generateTokenForDate(call[c].priority, call[c].appointmentDate)]
          /\ Goto(c, "sch_add")
       \/ /\ Return(c, Failure(StoreUnavailable))
          /\ UNCHANGED call
    /\ UNCHANGED <<patients, rooms, nextId>>

\* const docRef = await addDoc(collection(db, 'patients'), patient)
ScheduledAddDoc(c) ==
    /\ pc[c] = "sch_add"
    /\ \/ /\ patients' = [p \in DOMAIN patients \cup {nextId} |->
                  IF p = nextId
                  THEN ScheduledPatient(call[c].patientName, call[c].priority,
                           call[c].tokenNumber, call[c].appointmentDate)
                  ELSE patients[p]]
          /\ nextId' = nextId + 1
          /\ call' = [call EXCEPT ![c].patientId = nextId]
          /\ Goto(c, "sch_audit")
       \/ /\ Return(c, Failure(StoreUnavailable))
          /\ UNCHANGED <<patients, nextId, call>>
    /\ UNCHANGED rooms

\* await logAudit('registered', docRef.id, patient.name); return success
ScheduledAudit(c) ==
    /\ pc[c] = "sch_audit"
    /\ LogAudit(c, "registered")
    /\ Return(c, Success("Patient registered and scheduled"))
    /\ UNCHANGED <<patients, rooms, nextId>>

\* Scheduled registration, room assignment and discharge, one call at a
\* time by one caller.
ScheduledIds == 1..MaxScheduled

NextSchedule ==
    \/ \E priority \in Priorities : ScheduledAddPatient(Caller, "Jane", priority)
    \/ FindEarliestAvailableDate(Caller)
    \/ GenerateTokenForDate(Caller)
    \/ ScheduledAddDoc(Caller)
    \/ ScheduledAudit(Caller)
    \/ \E p \in ScheduledIds, r \in RoomIds : AssignRoom(Caller, p, r)
    \/ AssignRoomUpdatePatient(Caller)
    \/ AssignRoomUpdateRoom(Caller)
    \/ AssignRoomAudit(Caller)
    \/ \E p \in ScheduledIds : ConfirmDischarge(Caller, p)
    \/ ConfirmDischargeCall(Caller)
    \/ DischargeUpdateRoom(Caller)
    \/ DischargeAudit(Caller)
    \/ Finish(Caller)

SpecSchedule == Init /\ [][NextSchedule]_vars

\* The token arithmetic on its own: every priority with every number of
\* patients of the class waiting in the series, up to MaxWaiting.
MaxWaiting == 100

TokenCall(priority, waiting) ==
    [NoCall EXCEPT !.op = "generateTokenForDate"]
        @@ [priority |-> priority, waiting |-> waiting]

InitToken ==
    /\ patients = <<>>
    /\ rooms = [r \in RoomIds |-> NewRoom(RoomNumbers[r])]
    /\ nextId = 1
    /\ pc = [c \in Clients |-> "idle"]
    /\ \E priority \in Priorities, waiting \in 0..MaxWaiting :
          call = [c \in Clients |->
                    IF c = Caller THEN TokenCall(priority, waiting) ELSE NoCall]
    /\ result = [c \in Clients |-> NoResult]

AllocateToken(c) ==
    /\ pc[c] = "idle"
    /\ call[c].op = "generateTokenForDate"
    /\ pc' = [pc EXCEPT ![c] = "done"]
    /\ result' = [result EXCEPT ![c] =
                    Value(TokenFor(call[c].priority, call[c].waiting))]
    /\ UNCHANGED <<patients, rooms, nextId, call>>

NextToken == AllocateToken(Caller)

SpecToken == InitToken /\ [][NextToken]_vars

\* ------------------------------------------------ computeTimesForSlotIndex
\* A time of day 'HH:mm' is its two numbers, each below its limit as
\* padStart(2, '0') prints them.
HoursPerDay == 24
MinutesPerHour == 60
HHMM(hh, mm) == [hh |-> hh, mm |-> mm]

CLINIC_START_TIME == HHMM(9, 0)
SLOT_DURATION_MIN == 25
BUFFER_MIN == 5
SLOT_TOTAL_MIN == SLOT_DURATION_MIN + BUFFER_MIN

parseHHMM(hhmm) == [hh |-> hhmm.hh, mm |-> hhmm.mm]

\* addMinutesToTime(hhmm, minutesToAdd): a Date of today is set to hh:mm,
\* its minutes are set to mm + minutesToAdd (the Date carries the overflow
\* into the hours and the days), and its hours and minutes are printed.
addMinutesToTime(hhmm, minutesToAdd) ==
    LET minutes == parseHHMM(hhmm).hh * MinutesPerHour
                     + parseHHMM(hhmm).mm + minutesToAdd
    IN  HHMM((minutes \div MinutesPerHour) % HoursPerDay,
             minutes % MinutesPerHour)

computeTimesForSlotIndex(slotIndex) ==
    LET minutesFromStart == slotIndex * SLOT_TOTAL_MIN
        start == addMinutesToTime(CLINIC_START_TIME, minutesFromStart)
        end == addMinutesToTime(start, SLOT_DURATION_MIN)
    IN  [appointmentStartTime |-> start, appointmentEndTime |-> end]

\* Inputs of computeTimesForSlotIndex: the slot indices up to MaxSlotIndex.
MaxSlotIndex == 60

SlotCall(slotIndex) ==
    [NoCall EXCEPT !.op = "computeTimesForSlotIndex"]
        @@ [slotIndex |-> slotIndex]

InitSlot ==
    /\ patients = <<>>
    /\ rooms = [r \in RoomIds |-> NewRoom(RoomNumbers[r])]
    /\ nextId = 1
    /\ pc = [c \in Clients |-> "idle"]
    /\ \E slotIndex \in 0..MaxSlotIndex :
          call = [c \in Clients |->
                    IF c = Caller THEN SlotCall(slotIndex) ELSE NoCall]
    /\ result = [c \in Clients |-> NoResult]

ComputeTimesForSlotIndex(c) ==
    /\ pc[c] = "idle"
    /\ call[c].op = "computeTimesForSlotIndex"
    /\ pc' = [pc EXCEPT ![c] = "done"]
    /\ result' = [result EXCEPT ![c] =
                    Value(computeTimesForSlotIndex(call[c].slotIndex))]
    /\ UNCHANGED <<patients, rooms, nextId, call>>

NextSlot == ComputeTimesForSlotIndex(Caller)

SpecSlot == InitSlot /\ [][NextSlot]_vars

\* Scheduled registration by two clients at once, and discharge.
Registrars == {1, 2}

NextCapacity ==
    \/ \E c \in Registrars : ScheduledAddPatient(c, "Jane", "green")
    \/ \E c \in Registrars : FindEarliestAvailableDate(c)
    \/ \E c \in Registrars : GenerateTokenForDate(c)
    \/ \E c \in Registrars : ScheduledAddDoc(c)
    \/ \E c \in Registrars : ScheduledAudit(c)
    \/ \E c \in Registrars, p \in ScheduledIds : DischargePatient(c, p, Null)
    \/ \E c \in Registrars : DischargeAudit(c)
    \/ \E c \in Registrars : Finish(c)

SpecCapacity == Init /\ [][NextCapacity]_vars

\* ------------------------------------------------------------- statistics
\* Date.now() and checkInTime.toDate().getTime() are milliseconds; a wait is
\* their difference / 1000 / 60, in minutes.
MillisPerMinute == 60000

\* reduce(...): the sum of the waits, in milliseconds, of the patients of
\* pool that have a checkInTime.
RECURSIVE TotalWait(_, _)
TotalWait(pool, now) ==
    IF pool = {} THEN 0
    ELSE LET p == CHOOSE q \in pool : TRUE
             wait == IF patients[p].checkInTime # Null
                     THEN now - toDate(patients[p].checkInTime)
                     ELSE 0
         IN  wait + TotalWait(pool \ {p}, now)

\* avgWaitTime = Math.floor(totalWait / patients.length), 0 for no patients.
AverageWaitTime(pool, now) ==
    IF Cardinality(pool) > 0
    THEN TotalWait(pool, now) \div (MillisPerMinute * Cardinality(pool))
    ELSE 0

\* The statistics computed from a set of patients and the rooms.
StatisticsOf(pool, now) ==
    [totalPatients |-> Cardinality(pool),
     criticalCount |-> Cardinality({p \in pool : patients[p].priority = "red"}),
     urgentCount |-> Cardinality({p \in pool : patients[p].priority = "yellow"}),
     normalCount |-> Cardinality({p \in pool : patients[p].priority = "green"}),
     averageWaitTime |-> AverageWaitTime(pool, now),
     roomsOccupied |-> Cardinality({r \in DOMAIN rooms : rooms[r].status = "occupied"}),
     roomsAvailable |-> Cardinality({r \in DOMAIN rooms : rooms[r].status = "available"})]

\* where('status', '==', 'waiting')
WaitingPatients == {p \in DOMAIN patients : patients[p].status = "waiting"}

\* firebase-service.js getStatistics: query(collection(db, 'patients')).
getStatistics(now) == StatisticsOf(DOMAIN patients, now)

\* functions/index.js updateStatistics: the waiting patients.
updateStatistics(now) == StatisticsOf(WaitingPatients, now)

\* updateStatsFromPatients(patients), called with the list that
\* getWaitingPatients delivers.
updateStatsFromPatients(list) ==
    [total |-> Cardinality(list),
     critical |-> Cardinality({p \in list : patients[p].priority = "red"}),
     urgent |-> Cardinality({p \in list : patients[p].priority = "yellow"}),
     normal |-> Cardinality({p \in list : patients[p].priority = "green"})]

\* Store states the statistics are computed from: up to MaxPatients patient
\* documents of any status and priority, checked in one or two minutes
\* after the epoch or without a check-in time; now is some minutes later.
StatCheckInTimes ==
    {Null, MillisPerMinute * MicrosPerMilli, 2 * MillisPerMinute * MicrosPerMilli}
StatNows == {4 * MillisPerMinute, 5 * MillisPerMinute}
StatDocs ==
    {NewPatient("Jane") @@ [priority |-> pr, checkInTime |-> t] :
        pr \in Priorities, t \in StatCheckInTimes}
StatPatients ==
    UNION {{[p \in 1..n |-> [docs[p] EXCEPT !.status = sts[p]]] :
               docs \in [1..n -> StatDocs], sts \in [1..n -> Statuses]} :
           n \in 0..MaxPatients}

StatCall(op, now) == [NoCall EXCEPT !.op = op] @@ [now |-> now]

InitStats ==
    /\ patients \in StatPatients
    /\ rooms = [r \in RoomIds |-> NewRoom(RoomNumbers[r])]
    /\ nextId = Len(patients) + 1
    /\ pc = [c \in Clients |-> "idle"]
    /\ call = [c \in Clients |-> NoCall]
    /\ result = [c \in Clients |-> NoResult]

\* getStatistics(): both reads, then the result; a rejected read is caught.
GetStatistics(c, now) ==
    /\ pc[c] = "idle"
    /\ call' = [call EXCEPT ![c] = StatCall("getStatistics", now)]
    /\ \/ Return(c, [success |-> TRUE, data |-> getStatistics(now)])
       \/ Return(c, Failure(StoreUnavailable))
    /\ UNCHANGED <<patients, rooms, nextId>>

\* updateStatistics(): the statistics it writes to statistics/current.
UpdateStatistics(c, now) ==
    /\ pc[c] = "idle"
    /\ call' = [call EXCEPT ![c] = StatCall("updateStatistics", now)]
    /\ Return(c, [success |-> TRUE, data |-> updateStatistics(now)])
    /\ UNCHANGED <<patients, rooms, nextId>>

NextStats ==
    \/ \E now \in StatNows : GetStatistics(Caller, now)
    \/ \E now \in StatNows : UpdateStatistics(Caller, now)
    \/ Finish(Caller)

SpecStats == InitStats /\ [][NextStats]_vars

\* The exported operations of sampleFirebase.js that read or write the
\* store on scheduling, called one at a time by one caller.
NextExported ==
    \/ \E priority \in Priorities : ScheduledAddPatient(Caller, "Jane", priority)
    \/ CallFindEarliestAvailableDate(Caller)
    \/ FindEarliestAvailableDate(Caller)
    \/ GenerateTokenForDate(Caller)
    \/ ScheduledAddDoc(Caller)
    \/ ScheduledAudit(Caller)
    \/ \E p \in ScheduledIds, r \in RoomIds : AssignRoom(Caller, p, r)
    \/ AssignRoomUpdatePatient(Caller)
    \/ AssignRoomUpdateRoom(Caller)
    \/ AssignRoomAudit(Caller)
    \/ \E p \in ScheduledIds : DischargePatient(Caller, p, Null)
    \/ DischargeAudit(Caller)
    \/ Finish(Caller)

SpecExported == Init /\ [][NextExported]_vars

\* ---------------------------------------------------------- startup seeding
\* The DOMContentLoaded handler: getAvailableRooms(), and when it succeeded
\* and returned no room, one addRoom per room number (R1..R12 in the page;
\* here as many as NumRooms).  The store starts without rooms.
InitSeed ==
    /\ patients = <<>>
    /\ rooms = <<>>
    /\ nextId = 1
    /\ pc = [c \in Clients |-> "idle"]
    /\ call = [c \in Clients |-> NoCall]
    /\ result = [c \in Clients |-> NoResult]

\* where('status', '==', 'available')
getAvailableRooms == {r \in DOMAIN rooms : rooms[r].status = "available"}

\* const roomsResult = await getAvailableRooms();
\* if (roomsResult.success && roomsResult.data.length === 0) ...
\* A rejected read gives {success: false} and no seeding.
Startup(c) ==
    /\ pc[c] = "idle"
    /\ call' = [call EXCEPT ![c] =
                  [NoCall EXCEPT !.op = "startup"] @@ [seedNext |-> 1]]
    /\ \/ /\ getAvailableRooms = {}
          /\ Goto(c, "seed")
       \/ /\ getAvailableRooms # {}
          /\ Return(c, Success("started"))
       \/ Return(c, Success("started"))
    /\ UNCHANGED <<patients, rooms, nextId>>

\* await addRoom({roomNumber: `R${k}`}): the room is added, or the addDoc is
\* rejected and addRoom returns {success: false}, which the handler ignores.
SeedRoom(c) ==
    /\ pc[c] = "seed"
    /\ LET k == call[c].seedNext IN
       /\ \/ rooms' = Append(rooms, NewRoom(RoomNumbers[k]))
          \/ rooms' = rooms
       /\ call' = [call EXCEPT ![c].seedNext = k + 1]
       /\ IF k = NumRooms THEN Return(c, Success("started"))
          ELSE Goto(c, "seed")
    /\ UNCHANGED <<patients, nextId>>

\* Page startups by concurrent clients, with registration and room
\* assignment by one of them.
NextSeed ==
    \/ \E c \in Clients : Startup(c)
    \/ \E c \in Clients : SeedRoom(c)
    \/ AddPatient(Caller, "Jane")
    \/ AddPatientAudit(Caller)
    \/ \E p \in PatientIds, r \in RoomIds : AssignRoom(Caller, p, r)
    \/ AssignRoomUpdatePatient(Caller)
    \/ AssignRoomUpdateRoom(Caller)
    \/ AssignRoomAudit(Caller)
    \/ \E c \in Clients : Finish(c)

SpecSeed == InitSeed /\ [][NextSeed]_vars

\* ------------------------------------------------------------ room release
\* A room in the state the release leaves it in.
IsReleased(doc) ==
    /\ doc.status = "available"
    /\ doc.assignedPatientId = Null
    /\ doc.assignedPatientName = NullStr
    /\ doc.assignedTime = Null

\* ------------------------------------- assignRoom of firebase-service.js
\* The fields its patient update writes: assignedRoom and status, without
\* assignedRoomNumber.
AssignPatientFieldsService(doc, roomId) ==
    [doc EXCEPT !.assignedRoom = roomId, !.status = "in-treatment"]

\* assignRoom(patientId, roomId, patientName) of firebase-service.js, up to
\* the completion of its first await,
\*   await updateDoc(patientRef, {assignedRoom: roomId, status: 'in-treatment'})
\* The room update and the audit entry that follow are those of
\* AssignRoomUpdateRoom and AssignRoomAudit.
AssignRoomService(c, p, r) ==
    /\ pc[c] = "idle"
    /\ p \in 1..(nextId - 1)
    /\ call' = [call EXCEPT ![c] = NewCall("assignRoom", p, r, NameOf(p))]
    /\ \/ /\ p \in DOMAIN patients
          /\ patients' = [patients EXCEPT ![p] = AssignPatientFieldsService(@, r)]
          /\ Goto(c, "as_updRoom")
       \/ /\ p \notin DOMAIN patients
          /\ Return(c, Failure(PatientMissing))
          /\ UNCHANGED patients
       \/ /\ Return(c, Failure(StoreUnavailable))
          /\ UNCHANGED patients
    /\ UNCHANGED <<rooms, nextId>>

\* Registration, room assignment through either implementation of
\* assignRoom, and discharge, called one at a time by one caller.
NextAssign ==
    \/ AddPatient(Caller, "Jane")
    \/ AddPatientAudit(Caller)
    \/ \E p \in PatientIds, r \in RoomIds \cup {NoSuchRoom} : AssignRoom(Caller, p, r)
    \/ AssignRoomUpdatePatient(Caller)
    \/ \E p \in PatientIds, r \in RoomIds \cup {NoSuchRoom} :
          AssignRoomService(Caller, p, r)
    \/ AssignRoomUpdateRoom(Caller)
    \/ AssignRoomAudit(Caller)
    \/ \E p \in PatientIds : DischargePatient(Caller, p, Null)
    \/ DischargeAudit(Caller)
    \/ Finish(Caller)

SpecAssign == Init /\ [][NextAssign]_vars

\* ------------------------------------------------- real-time subscriptions
\* The page of one client: its two module variables unsubscribePatients and
\* unsubscribeRooms (null, or the handle onSnapshot returned) and the
\* listeners the client has registered with the store and not yet removed.
\* A handle is the number of the onSnapshot call that returned it.
MaxSubscriptions == 4

\* let unsubscribePatients = null; let unsubscribeRooms = null;
FreshPage ==
    [op |-> "page", unsubscribePatients |-> Null, unsubscribeRooms |-> Null,
     patientListeners |-> {}, roomListeners |-> {}, nextHandle |-> 1]

InitSubscribe ==
    /\ patients = <<>>
    /\ rooms = [r \in RoomIds |-> NewRoom(RoomNumbers[r])]
    /\ nextId = 1
    /\ pc = [c \in Clients |-> "unloaded"]
    /\ call = [c \in Clients |-> FreshPage]
    /\ result = [c \in Clients |-> NoResult]

\* Calling the function onSnapshot returned removes its listener; calling
\* it again does nothing.
Unsubscribe(listeners, handle) == listeners \ {handle}

\* startRealtimeUpdates with the earlier handle overwritten unreleased.
startRealtimeUpdatesLeaks(page) ==
    [page EXCEPT !.patientListeners = @ \cup {page.nextHandle},
                 !.unsubscribePatients = page.nextHandle,
                 !.nextHandle = @ + 1]

\* startRealtimeUpdates(): if (unsubscribePatients) unsubscribePatients();
\* unsubscribePatients = getWaitingPatients(callback);
startRealtimeUpdates(page) ==
    [page EXCEPT !.patientListeners =
                     Unsubscribe(@, page.unsubscribePatients) \cup {page.nextHandle},
                 !.unsubscribePatients = page.nextHandle,
                 !.nextHandle = @ + 1]

\* startRoomUpdates(): if (unsubscribeRooms) unsubscribeRooms();
\* unsubscribeRooms = getAllRooms(callback);
startRoomUpdates(page) ==
    [page EXCEPT !.roomListeners =
                     Unsubscribe(@, page.unsubscribeRooms) \cup {page.nextHandle},
                 !.unsubscribeRooms = page.nextHandle,
                 !.nextHandle = @ + 1]

\* The beforeunload handler: both handles, when set, are called.
beforeUnload(page) ==
    [page EXCEPT !.patientListeners = Unsubscribe(@, page.unsubscribePatients),
                 !.roomListeners = Unsubscribe(@, page.unsubscribeRooms)]

\* DOMContentLoaded on a newly loaded page, up to its first await:
\* startRealtimeUpdates(); const roomsResult = await getAvailableRooms();
PageLoad(c) ==
    /\ pc[c] = "unloaded"
    /\ call' = [call EXCEPT ![c] = startRealtimeUpdates(FreshPage)]
    /\ Goto(c, "page_rooms")
    /\ UNCHANGED <<patients, rooms, nextId>>

\* The rest of the DOMContentLoaded handler: startRoomUpdates(); ...
PageStartRooms(c) ==
    /\ pc[c] = "page_rooms"
    /\ call' = [call EXCEPT ![c] = startRoomUpdates(@)]
    /\ Goto(c, "page_ready")
    /\ UNCHANGED <<patients, rooms, nextId>>

\* A further call of startRealtimeUpdates() on a loaded page.
StartRealtimeUpdates(c) ==
    /\ pc[c] \in {"page_rooms", "page_ready"}
    /\ call[c].nextHandle <= MaxSubscriptions
    /\ call' = [call EXCEPT ![c] = startRealtimeUpdates(@)]
    /\ UNCHANGED <<patients, rooms, nextId, pc, result>>

\* A further call of startRoomUpdates() on a loaded page.
StartRoomUpdates(c) ==
    /\ pc[c] = "page_ready"
    /\ call[c].nextHandle <= MaxSubscriptions
    /\ call' = [call EXCEPT ![c] = startRoomUpdates(@)]
    /\ UNCHANGED <<patients, rooms, nextId, pc, result>>

\* The page is closed or reloaded: beforeunload runs, then the page is gone.
BeforeUnload(c) ==
    /\ pc[c] \in {"page_rooms", "page_ready"}
    /\ call' = [call EXCEPT ![c] = beforeUnload(@)]
    /\ Goto(c, "unloaded")
    /\ UNCHANGED <<patients, rooms, nextId>>

NextSubscribe ==
    \/ \E c \in Clients : PageLoad(c)
    \/ \E c \in Clients : PageStartRooms(c)
    \/ \E c \in Clients : StartRealtimeUpdates(c)
    \/ \E c \in Clients : StartRoomUpdates(c)
    \/ \E c \in Clients : BeforeUnload(c)

SpecSubscribe == InitSubscribe /\ [][NextSubscribe]_vars

\* Submits of the registration form by concurrent clients (or two submits
\* of one page, the second made while the first is at an await).
NextSubmit ==
    \/ \E c \in Clients, name \in FormNames, contact \in FormContacts :
          HandleNewPatientSubmit(c, name, contact)
    \/ \E c \in Clients : SubmitAddPatient(c)
    \/ \E c \in Clients : AddPatientAudit(c)
    \/ \E c \in Clients : Finish(c)

SpecSubmit == Init /\ [][NextSubmit]_vars

\* ------------------------------------------------ dischargePatientFromRoom
\* assignRoomToPatient(roomId, roomNumber) from the room list of
\* showRoomAssignment: the patient is an entry of the waiting queue, the
\* room one that getAvailableRooms returned; it calls assignRoom.
AssignRoomToPatient(c, p, r) ==
    /\ p \in DOMAIN patients
    /\ patients[p].status = "waiting"
    /\ r \in getAvailableRooms
    /\ AssignRoomService(c, p, r)

\* showRoomPatientDetails(roomId, patientId, patientName, roomNumber) from
\* the card of an occupied room, up to the opening of the details modal:
\* with no patient on the card, or when getPatientById fails (no such
\* patient, or the read is rejected), no modal is opened.
ShowRoomPatientDetails(c, r) ==
    /\ pc[c] = "idle"
    /\ r \in DOMAIN rooms
    /\ rooms[r].status = "occupied"
    /\ LET p == rooms[r].assignedPatientId IN
       \/ /\ p \in DOMAIN patients
          /\ call' = [call EXCEPT ![c] =
                        [NoCall EXCEPT !.handler = "dischargePatientFromRoom",
                                       !.patientId = p,
                                       !.patientName = patients[p].name,
                                       !.roomId = r,
                                       !.roomNumber = rooms[r].roomNumber]]
          /\ Goto(c, "dr_modal")
       \/ UNCHANGED <<call, pc, result>>
    /\ UNCHANGED <<patients, rooms, nextId>>

\* The modal's buttons.  Discharge Patient: dischargePatientFromRoom(
\* patientId, patientName, roomId, roomNumber) with the values the modal was
\* built with; when confirmed it calls dischargePatient(patientId,
\* patientName, roomId).  Close, or not confirmed: nothing more happens.
DischargePatientFromRoom(c) ==
    /\ pc[c] = "dr_modal"
    /\ \/ LET p == call[c].patientId
              r == call[c].roomId
          IN  /\ call' = [call EXCEPT ![c] =
                    [NewCall("dischargePatient", p, r, call[c].patientName)
                        EXCEPT !.handler = "dischargePatientFromRoom"]]
              /\ DeletePatientDoc(c, p, r)
       \/ /\ pc' = [pc EXCEPT ![c] = "idle"]
          /\ call' = [call EXCEPT ![c] = NoCall]
          /\ UNCHANGED <<patients, rooms, nextId, result>>

\* Registration, room assignment from the queue and discharge from the room
\* cards, by concurrent clients.
NextRoomDischarge ==
    \/ \E c \in Clients : AddPatient(c, "Jane")
    \/ \E c \in Clients : AddPatientAudit(c)
    \/ \E c \in Clients, p \in PatientIds, r \in RoomIds : AssignRoomToPatient(c, p, r)
    \/ \E c \in Clients : AssignRoomUpdateRoom(c)
    \/ \E c \in Clients : AssignRoomAudit(c)
    \/ \E c \in Clients, r \in RoomIds : ShowRoomPatientDetails(c, r)
    \/ \E c \in Clients : DischargePatientFromRoom(c)
    \/ \E c \in Clients : DischargeUpdateRoom(c)
    \/ \E c \in Clients : DischargeAudit(c)
    \/ \E c \in Clients : Finish(c)

SpecRoomDischarge == Init /\ [][NextRoomDischarge]_vars

\* MAX_APPOINTMENTS_PER_DAY as shipped: the number of slot indices of a day.
ShippedCapacity == 50

\* ------------------------------------------------------- the waiting query
\* query(patients, where('status', '==', 'waiting'), orderBy('priority',
\* 'asc'), orderBy('checkInTime', 'asc')): the store orders the string field
\* priority as strings, character by character.
Alphabet ==
    <<"a", "b", "c", "d", "e", "f", "g", "h", "i", "j", "k", "l", "m",
      "n", "o", "p", "q", "r", "s", "t", "u", "v", "w", "x", "y", "z">>
CharCode(ch) == CHOOSE i \in 1..Len(Alphabet) : Alphabet[i] = ch
PriorityText ==
    [red |-> <<"r", "e", "d">>,
     yellow |-> <<"y", "e", "l", "l", "o", "w">>,
     green |-> <<"g", "r", "e", "e", "n">>]

\* The order of two strings: negative, zero or positive.
RECURSIVE StringCompare(_, _)
StringCompare(s, t) ==
    IF s = <<>> /\ t = <<>> THEN 0
    ELSE IF s = <<>> THEN -1
    ELSE IF t = <<>> THEN 1
    ELSE IF Head(s) # Head(t) THEN CharCode(Head(s)) - CharCode(Head(t))
    ELSE StringCompare(Tail(s), Tail(t))

\* The order of two documents in the query result: priority, then
\* checkInTime (a Timestamp, compared at its full resolution), then the
\* document id.
QueryCompare(a, b) ==
    IF a.priority # b.priority
    THEN StringCompare(PriorityText[a.priority], PriorityText[b.priority])
    ELSE IF a.checkInTime # b.checkInTime THEN a.checkInTime - b.checkInTime
    ELSE a.id - b.id

RECURSIVE QueryInsert(_, _)
QueryInsert(x, sorted) ==
    IF sorted = <<>> THEN <<x>>
    ELSE IF QueryCompare(sorted[Len(sorted)], x) > 0
         THEN Append(QueryInsert(x, SubSeq(sorted, 1, Len(sorted) - 1)),
                     sorted[Len(sorted)])
         ELSE Append(sorted, x)

RECURSIVE QuerySortFrom(_, _, _)
QuerySortFrom(list, i, sorted) ==
    IF i > Len(list) THEN sorted
    ELSE QuerySortFrom(list, i + 1, QueryInsert(list[i], sorted))

\* A document without one of the orderBy fields is not in the result.
HasOrderFields(doc) == doc.checkInTime # Null

\* The documents the query delivers, in its order, for the waiting patients
\* given as a list.
waitingQuery(list) == QuerySortFrom(SelectSeq(list, HasOrderFields), 1, <<>>)

QueryCall(list) ==
    [NoCall EXCEPT !.op = "getWaitingPatients"] @@ [patients |-> list]

InitQuery ==
    /\ patients = <<>>
    /\ rooms = [r \in RoomIds |-> NewRoom(RoomNumbers[r])]
    /\ nextId = 1
    /\ pc = [c \in Clients |-> "idle"]
    /\ \E list \in QueueInputs :
          call = [c \in Clients |->
                    IF c = Caller THEN QueryCall(list) ELSE NoCall]
    /\ result = [c \in Clients |-> NoResult]

\* getWaitingPatients' snapshot callback, getAllPatients and GET
\* /api/patients: the query result is passed on in the order of the query.
GetWaitingPatients(c) ==
    /\ pc[c] = "idle"
    /\ call[c].op = "getWaitingPatients"
    /\ pc' = [pc EXCEPT ![c] = "done"]
    /\ result' = [result EXCEPT ![c] = Value(waitingQuery(call[c].patients))]
    /\ UNCHANGED <<patients, rooms, nextId, call>>

NextQuery == GetWaitingPatients(Caller)

SpecQuery == InitQuery /\ [][NextQuery]_vars

\* ---------------------------------------------------- statistics triggers
\* functions/index.js: onPatientCreated, onPatientUpdated and
\* onPatientDeleted each end with await updateStatistics(), which reads the
\* waiting patients, then the rooms, and then sets statistics/current.  No
\* trigger is registered on the rooms collection.
\*
\* The functions runtime takes the place of one client: call[FunctionsRuntime]
\* holds the patients collection as the last started trigger run found it
\* (seen), the statistics that run has computed so far (computed) and the
\* document statistics/current (statistics).  A trigger run is pending while
\* the patients collection differs from seen; the triggers of several
\* changes that start together read the same state and set the same
\* document, and are one run here.
FunctionsRuntime == 2
\* Date.now() of a run, and the checkInTime of a registration.
TriggerNow == 4 * MillisPerMinute
RegisteredAt == MillisPerMinute * MicrosPerMilli

InitTriggers ==
    /\ patients = <<>>
    /\ rooms = [r \in RoomIds |-> NewRoom(RoomNumbers[r])]
    /\ nextId = 1
    /\ pc = [c \in Clients |-> "idle"]
    /\ call = [c \in Clients |->
                 IF c = FunctionsRuntime
                 THEN [op |-> "functions", seen |-> patients,
                       computed |-> updateStatistics(TriggerNow),
                       statistics |-> updateStatistics(TriggerNow)]
                 ELSE NoCall]
    /\ result = [c \in Clients |-> NoResult]

\* addPatient(patientData) of firebase-service.js with the priority and the
\* checkInTime of its document, up to the completion of its addDoc.
RegisterPatient(c, name, priority) ==
    /\ pc[c] = "idle"
    /\ nextId <= MaxPatients
    /\ \/ /\ patients' = [p \in DOMAIN patients \cup {nextId} |->
                            IF p = nextId
                            THEN NewPatient(name)
                                    @@ [priority |-> priority,
                                        checkInTime |-> RegisteredAt]
                            ELSE patients[p]]
          /\ nextId' = nextId + 1
          /\ call' = [call EXCEPT ![c] = NewCall("addPatient", nextId, Null, name)]
          /\ Goto(c, "add_audit")
       \/ /\ call' = [call EXCEPT ![c] = NewCall("addPatient", Null, Null, name)]
          /\ Return(c, Failure(StoreUnavailable))
          /\ UNCHANGED <<patients, nextId>>
    /\ UNCHANGED rooms

\* A trigger run starts: updateStatistics() up to the completion of
\*   const patientsSnapshot = await db.collection('patients')
\*       .where('status', '==', 'waiting').get();
TriggerReadPatients ==
    /\ pc[FunctionsRuntime] = "idle"
    /\ patients # call[FunctionsRuntime].seen
    /\ call' = [call EXCEPT ![FunctionsRuntime].seen = patients,
                            ![FunctionsRuntime].computed =
                                updateStatistics(TriggerNow)]
    /\ Goto(FunctionsRuntime, "tr_rooms")
    /\ UNCHANGED <<patients, rooms, nextId>>

\* const roomsSnapshot = await db.collection('rooms').get();
TriggerReadRooms ==
    /\ pc[FunctionsRuntime] = "tr_rooms"
    /\ call' = [call EXCEPT
                  ![FunctionsRuntime].computed.roomsOccupied =
                      updateStatistics(TriggerNow).roomsOccupied,
                  ![FunctionsRuntime].computed.roomsAvailable =
                      updateStatistics(TriggerNow).roomsAvailable]
    /\ Goto(FunctionsRuntime, "tr_set")
    /\ UNCHANGED <<patients, rooms, nextId>>

\* await db.collection('statistics').doc('current').set(stats);
TriggerSetStatistics ==
    /\ pc[FunctionsRuntime] = "tr_set"
    /\ call' = [call EXCEPT ![FunctionsRuntime].statistics =
                                call[FunctionsRuntime].computed]
    /\ Goto(FunctionsRuntime, "idle")
    /\ UNCHANGED <<patients, rooms, nextId>>

\* Registration, room assignment and discharge by one caller, with the
\* trigger runs they start.
NextTriggers ==
    \/ \E priority \in Priorities : RegisterPatient(Caller, "Jane", priority)
    \/ AddPatientAudit(Caller)
    \/ \E p \in PatientIds, r \in RoomIds : AssignRoomToPatient(Caller, p, r)
    \/ AssignRoomUpdateRoom(Caller)
    \/ AssignRoomAudit(Caller)
    \/ \E p \in PatientIds : ConfirmDischarge(Caller, p)
    \/ ConfirmDischargeCall(Caller)
    \/ DischargeUpdateRoom(Caller)
    \/ DischargeAudit(Caller)
    \/ Finish(Caller)
    \/ TriggerReadPatients
    \/ TriggerReadRooms
    \/ TriggerSetStatistics

SpecTriggers == InitTriggers /\ [][NextTriggers]_vars

\* ================================================================ claims
InAssign(c) == pc[c] \in {"as_updPatient", "as_updRoom", "as_audit"}
InDischarge(c) == pc[c] \in {"dis_updRoom", "dis_audit"}
Returned(c, op) == pc[c] = "done" /\ call[c].op = op
WasWaiting(c) ==
    call[c].prePatient # {} /\ \A d \in call[c].prePatient : d.status = "waiting"

\* C1: a store write of assignRoom made while the target room is not
\* 'available' changes neither the patients nor the rooms, and the call
\* returns a failure.
C1_UnavailableRoomRejected ==
    [][\A c \in Clients :
        (/\ pc[c] \in {"as_updPatient", "as_updRoom"}
         /\ pc'[c] # pc[c]
         /\ call[c].roomId \in DOMAIN rooms
         /\ rooms[call[c].roomId].status # "available")
        => (/\ patients' = patients
            /\ rooms' = rooms
            /\ pc'[c] = "done"
            /\ ~result'[c].success)]_vars

\* C2: in every reachable state no two rooms reference the same patient and
\* no two patients reference the same room.
C2_OneToOne ==
    /\ \A r1, r2 \in DOMAIN rooms :
          (r1 # r2 /\ rooms[r1].assignedPatientId # Null)
          => rooms[r1].assignedPatientId # rooms[r2].assignedPatientId
    /\ \A p1, p2 \in DOMAIN patients :
          (p1 # p2 /\ patients[p1].assignedRoom # Null)
          => patients[p1].assignedRoom # patients[p2].assignedRoom

\* C3: whenever no assignRoom or dischargePatient call is in progress, a room
\* references patient p exactly when p exists and references that room.
C3_MutuallyConsistent ==
    (\A c \in Clients : ~InAssign(c) /\ ~InDischarge(c))
    => \A r \in DOMAIN rooms, p \in PatientIds :
          (rooms[r].assignedPatientId = p)
          <=> (p \in DOMAIN patients /\ patients[p].assignedRoom = r)

\* C4: every patient document has a room assigned exactly when its status is
\* in-treatment (a newly registered patient, waiting with no room, included).
C4_RoomIffInTreatment ==
    \A p \in DOMAIN patients :
        (patients[p].assignedRoom # Null) <=> (patients[p].status = "in-treatment")

\* C5: every room document has status 'occupied' exactly when its
\* assignedPatientId is not null.
C5_OccupiedIffPatient ==
    \A r \in DOMAIN rooms :
        (rooms[r].status = "occupied") <=> (rooms[r].assignedPatientId # Null)

\* C5 witness: a discharge has released a room that was occupied while
\* another room is occupied by an assignment.
C5_Witness ==
    \E c \in Clients, r \in DOMAIN rooms :
        /\ Returned(c, "dischargePatient")
        /\ result[c].success
        /\ call[c].roomId \in DOMAIN rooms
        /\ call[c].preRoomStatus = "occupied"
        /\ rooms[call[c].roomId].status = "available"
        /\ rooms[r].status = "occupied"

\* C6: when two clients call assignRoom for two different waiting patients
\* and the same available room, and no store call of either is rejected,
\* exactly one call succeeds; the room then references the patient of the
\* successful call and the other patient is still waiting with no room.
C6_ExactlyOneAssignSucceeds ==
    \A c1, c2 \in Clients :
        (/\ c1 # c2
         /\ Returned(c1, "assignRoom") /\ Returned(c2, "assignRoom")
         /\ call[c1].roomId = call[c2].roomId
         /\ call[c1].patientId # call[c2].patientId
         /\ WasWaiting(c1) /\ WasWaiting(c2)
         /\ call[c1].preRoomStatus = "available"
         /\ call[c2].preRoomStatus = "available"
         /\ result[c1].message # StoreUnavailable
         /\ result[c2].message # StoreUnavailable)
        => /\ result[c1].success # result[c2].success
           /\ (result[c1].success /\ ~result[c2].success)
              => /\ rooms[call[c1].roomId].assignedPatientId = call[c1].patientId
                 /\ call[c2].patientId \in DOMAIN patients
                 /\ patients[call[c2].patientId].status = "waiting"
                 /\ patients[call[c2].patientId].assignedRoom = Null

\* C7: when assignRoom returns, either it returns success and both documents
\* carry the assignment, or it returns failure and the patient document is as
\* it was when the call was made and the room document is not written.
C7_AssignAllOrNothing ==
    [][\A c \in Clients :
        (/\ call[c].op = "assignRoom"
         /\ InAssign(c)
         /\ pc'[c] = "done"
         /\ call[c].roomId \in DOMAIN rooms)
        => LET p == call[c].patientId
               r == call[c].roomId
           IN  IF result'[c].success
               THEN /\ p \in DOMAIN patients'
                    /\ patients'[p].assignedRoom = r
                    /\ patients'[p].status = "in-treatment"
                    /\ rooms'[r].status = "occupied"
                    /\ rooms'[r].assignedPatientId = p
               ELSE /\ PatientAt(p)' = call[c].prePatient
                    /\ rooms'[r] = rooms[r]]_vars

\* C8: a step of an assignRoom call whose patientId or roomId resolved to no
\* document when the call was made writes no patient and no room document
\* and creates none, and the call returns a failure.
C8_NotFoundWritesNothing ==
    [][\A c \in Clients :
        (/\ call[c].op = "assignRoom"
         /\ InAssign(c)
         /\ pc'[c] # pc[c]
         /\ (call[c].prePatient = {} \/ call[c].preRoomStatus = NullStr))
        => (/\ patients' = patients
            /\ rooms' = rooms
            /\ nextId' = nextId
            /\ pc'[c] = "done"
            /\ ~result'[c].success)]_vars

\* C9: when a dischargePatient call issued by confirmDischarge returns
\* success for a patient that was in-treatment in room R, the patient
\* document does not exist and R is available with
\* assignedPatientId, assignedPatientName and assignedTime null (the state in
\* which R is offered to the next waiting patient).
C9_DischargeFreesRoomForNext ==
    \A c \in Clients, r \in DOMAIN rooms :
        (/\ Returned(c, "dischargePatient")
         /\ call[c].handler = "confirmDischarge"
         /\ result[c].success
         /\ \E d \in call[c].prePatient :
               d.assignedRoom = r /\ d.status = "in-treatment")
        => /\ call[c].patientId \notin DOMAIN patients
           /\ rooms[r] = NewRoom(rooms[r].roomNumber)

\* C10: when the room update of a dischargePatient call fails for a patient
\* that was in-treatment in the room and that the room references, the
\* patient document still exists: the room is not left occupied by a deleted
\* patient.
C10_ReleaseFailureKeepsPatient ==
    [][\A c \in Clients :
        (/\ pc[c] = "dis_updRoom"
         /\ pc'[c] = "done"
         /\ call[c].roomId \in DOMAIN rooms
         /\ rooms[call[c].roomId].assignedPatientId = call[c].patientId
         /\ \E d \in call[c].prePatient :
               d.status = "in-treatment" /\ d.assignedRoom = call[c].roomId)
        => call[c].patientId \in DOMAIN patients']_vars

\* C11: in every step, a patient document that is kept either keeps its
\* status or goes from waiting to in-treatment by the patient update of an
\* assignRoom call; and the patient update of assignRoom is applied only to
\* a patient that is waiting.
C11_OnlyLegalTransitions ==
    [][\A p \in DOMAIN patients :
        /\ p \in DOMAIN patients'
           => \/ patients'[p].status = patients[p].status
              \/ /\ patients[p].status = "waiting"
                 /\ patients'[p].status = "in-treatment"
                 /\ \E c \in Clients :
                       /\ pc[c] = "as_updPatient"
                       /\ pc'[c] = "as_updRoom"
                       /\ call[c].patientId = p
        /\ \A c \in Clients :
              (/\ pc[c] = "as_updPatient"
               /\ pc'[c] = "as_updRoom"
               /\ call[c].patientId = p)
              => patients[p].status = "waiting"]_vars

\* C12: every patient that a discharge step acts on (the delete of a
\* dischargePatient call, or a bulkDischarge batch, the only step that
\* changes patients outside a client call) is removed, and no patient
\* document that is kept comes to hold the status 'discharged' by it.
C12_DischargeRemovesRecord ==
    [][\A p \in DOMAIN patients :
        (\/ /\ pc' = pc
            /\ patients' # patients
            /\ (p \notin DOMAIN patients' \/ patients'[p] # patients[p])
         \/ \E c \in Clients :
               /\ pc[c] \in {"idle", "cd_confirm"}
               /\ pc'[c] \in {"dis_updRoom", "dis_audit"}
               /\ call'[c].patientId = p)
        => p \notin DOMAIN patients']_vars

\* C13: a submit never adds a patient document while a non-discharged
\* patient with identical (name, contact) exists; and a submit is turned
\* down as a duplicate only when a non-discharged patient with the same
\* (name, contact), compared without surrounding whitespace, exists.
C13_DuplicateRejected ==
    [][\A c \in Clients :
        /\ (pc[c] = "reg_add" /\ pc'[c] = "add_audit")
           => ~\E p \in DOMAIN patients :
                 /\ patients[p].status # "discharged"
                 /\ patients[p].name = call[c].patientName
                 /\ patients[p].contact = call[c].contact
        /\ (pc[c] = "idle" /\ pc'[c] = "done"
               /\ result'[c].message = PatientExistsMessage)
           => \E p \in DOMAIN patients :
                 /\ patients[p].status # "discharged"
                 /\ Trim(patients[p].name) = Trim(call'[c].patientName)
                 /\ Trim(patients[p].contact) = Trim(call'[c].contact)]_vars

\* C14: a submit whose name or contact is empty after trimming has returned
\* the validation failure without sending the duplicate lookup, without
\* creating a patient and without an audit entry; no patient document has a
\* name or contact that is empty after trimming.
C14_EmptyInputRejected ==
    /\ \A c \in Clients :
          (/\ call[c].handler = "handleNewPatientSubmit"
           /\ (Trim(call[c].patientName) = <<>> \/ Trim(call[c].contact) = <<>>))
          => /\ pc[c] = "done"
             /\ result[c] = Failure(ValidationMessage)
             /\ ~call[c].looked
             /\ call[c].patientId = Null
             /\ call[c].logged = NullStr
    /\ \A p \in DOMAIN patients :
          Trim(patients[p].name) # <<>> /\ Trim(patients[p].contact) # <<>>

\* C14 witness: a submit with a name of blanks only and a filled contact has
\* been turned down while a patient is registered.
C14_Witness ==
    \E c \in Clients :
        /\ pc[c] = "done"
        /\ call[c].handler = "handleNewPatientSubmit"
        /\ call[c].patientName = <<Blank, Blank>>
        /\ Trim(call[c].contact) # <<>>
        /\ result[c] = Failure(ValidationMessage)
        /\ DOMAIN patients # {}

\* C15: for every symptom set and vitals object, calculatePriority returns
\* 'red' when a critical symptom is present, otherwise 'yellow' when fever or
\* pain is present or pulse > 120 or temperature > 103, otherwise 'green'.
C15_FirstMatchRule ==
    \A c \in Clients :
        (Returned(c, "calculatePriority") /\ call[c].vitals # UndefinedObject)
        => LET symptoms == call[c].symptoms
               vitals == call[c].vitals
               critical == symptoms \cap criticalSymptoms # {}
               urgent ==
                   \/ symptoms \cap {"fever", "pain"} # {}
                   \/ \E x \in Pulses :
                         "pulse" \in DOMAIN vitals /\ vitals["pulse"] = x /\ x > 120
                   \/ \E x \in Temperatures :
                         /\ "temperature" \in DOMAIN vitals
                         /\ vitals["temperature"] = x
                         /\ x > 1030
           IN  result[c] = Value(IF critical THEN "red"
                                 ELSE IF urgent THEN "yellow" ELSE "green")

\* C15 witness: pulse 120 and temperature 103.0 with no critical symptom and
\* neither fever nor pain have been classified green.
C15_Witness ==
    \E c \in Clients :
        /\ Returned(c, "calculatePriority")
        /\ call[c].symptoms = {"nausea"}
        /\ call[c].vitals = [pulse |-> 120, temperature |-> 1030]
        /\ result[c] = Value("green")

\* C16: calculatePriority returns one of the three classes, without
\* throwing, for every input: the vitals objects without a pulse or
\* temperature field and the absent vitals object included.
C16_Total ==
    \A c \in Clients :
        Returned(c, "calculatePriority")
        => \E class \in Priorities : result[c] = Value(class)

C18_MissingTimeIsOldest ==
    \A c \in Clients :
        Returned(c, "renderQueue")
        => LET out == result[c].value IN
           \A i, j \in 1..Len(out) :
               (out[i].checkInTime = Null /\ i # j)
               => /\ (out[j].priority = out[i].priority
                         /\ out[j].checkInTime # Null) => i < j
                  /\ priorityOrder[out[j].priority]
                        < priorityOrder[out[i].priority] => j < i

\* C18 witness: a yellow patient without a timestamp, given last, has been
\* ordered between a red patient and a yellow patient that have one.
C18_Witness ==
    \E c \in Clients :
        /\ Returned(c, "renderQueue")
        /\ Len(call[c].patients) = 3
        /\ call[c].patients[1].priority = "yellow"
        /\ call[c].patients[1].checkInTime # Null
        /\ call[c].patients[2].priority = "red"
        /\ call[c].patients[2].checkInTime # Null
        /\ call[c].patients[3].priority = "yellow"
        /\ call[c].patients[3].checkInTime = Null
        /\ result[c].value[1].id = 2
        /\ result[c].value[2].id = 3
        /\ result[c].value[3].id = 1

\* C19: a token allocated for a priority class lies in the band of the
\* class: at least the base of the band and below the base of the next.
C19_TokenInBand ==
    \A c \in Clients :
        Returned(c, "generateTokenForDate")
        => /\ result[c].value >= TokenBase[call[c].priority]
           /\ result[c].value < TokenBase[call[c].priority] + BandWidth

\* C20: no two patients that are waiting with the same priority class and
\* the same appointment date hold the same token number.
C20_TokensUniqueInSeries ==
    \A p, q \in DOMAIN patients :
        (/\ p # q
         /\ patients[p].status = "waiting"
         /\ patients[q].status = "waiting"
         /\ patients[p].priority = patients[q].priority
         /\ patients[p].appointmentDate = patients[q].appointmentDate)
        => patients[p].tokenNumber # patients[q].tokenNumber

\* C21: for slot index i, computeTimesForSlotIndex(i) starts 30 * i minutes
\* after 09:00 and ends 25 minutes after it starts, and slot i + 1 starts 30
\* minutes after slot i; a time of day counts as its minutes since 00:00.
C21_SlotTimes ==
    \A c \in Clients :
        Returned(c, "computeTimesForSlotIndex")
        => LET i == call[c].slotIndex
               minutes(t) == t.hh * 60 + t.mm
               start == minutes(result[c].value.appointmentStartTime)
               end == minutes(result[c].value.appointmentEndTime)
               next == minutes(computeTimesForSlotIndex(i + 1).appointmentStartTime)
           IN  /\ start = 9 * 60 + i * 30
               /\ end = start + 25
               /\ next = start + 30

\* C22: when findEarliestAvailableDate has returned a date, the total it read
\* for that date was below MAX_APPOINTMENTS_PER_DAY, it read one total for
\* every date from today to the returned date, and the total it read for
\* every earlier date was at or above MAX_APPOINTMENTS_PER_DAY.
C22_FirstDateBelowCapacity ==
    \A c \in Clients :
        pc[c] \in {"sch_token", "sch_add", "sch_audit"}
        => LET d == call[c].appointmentDate
               reads == call[c].reads
           IN  /\ Len(reads) = d - Today + 1
               /\ reads[Len(reads)] < MAX_APPOINTMENTS_PER_DAY
               /\ \A i \in 1..(Len(reads) - 1) :
                     reads[i] >= MAX_APPOINTMENTS_PER_DAY

\* C22 witness: a scan has passed over today, which it read as full, and has
\* returned tomorrow.
C22_Witness ==
    \E c \in Clients :
        /\ pc[c] = "sch_token"
        /\ call[c].appointmentDate = Today + 1
        /\ call[c].reads[1] >= MAX_APPOINTMENTS_PER_DAY

\* C24: on no appointment date are more than MAX_APPOINTMENTS_PER_DAY + 1
\* patients waiting while two clients register concurrently, and an
\* addPatient during which no other addPatient was in progress leaves at
\* most MAX_APPOINTMENTS_PER_DAY patients waiting on the date it wrote.
C24_CapacityExceededByAtMostOne ==
    [][/\ \A d \in 1..MaxDays :
             Cardinality(WaitingOn(d))' <= MAX_APPOINTMENTS_PER_DAY + 1
       /\ \A c \in Clients :
             (/\ pc[c] = "sch_add"
              /\ pc'[c] = "sch_audit"
              /\ ~call[c].overlapped)
             => Cardinality(WaitingOn(call[c].appointmentDate))'
                   <= MAX_APPOINTMENTS_PER_DAY]_vars

\* C24 witness: two registrations that overlapped have both been written on
\* today, which now has one waiting patient more than the capacity.
C24_Witness ==
    /\ Cardinality(WaitingOn(Today)) = MAX_APPOINTMENTS_PER_DAY + 1
    /\ \E c \in Clients : pc[c] = "sch_audit" /\ call[c].overlapped

\* C23: the scan of findEarliestAvailableDate stays inside a horizon: a turn
\* that reads the last date of the horizon as full ends the scan with a
\* capacity-exhausted failure, and no scan goes on to a later date.  The
\* horizon is taken one day short of the dates of the model.
C23_ScanBoundedByHorizon ==
    [][\A c \in Clients :
        LET horizon == MaxDays - 1
            key == call[c].appointmentDate
        IN  (/\ pc[c] = "sch_scan"
             /\ pc'[c] # "sch_scan" \/ call'[c] # call[c]
             /\ key = Today + horizon - 1
             /\ ~HasCapacity(getCountsForDate(key)))
            => /\ pc'[c] = "done"
               /\ ~result'[c].success
               /\ call'[c].appointmentDate = key]_vars

\* C25: the averageWaitTime that getStatistics and updateStatistics report
\* is the floor of the mean wait, in minutes, of the patients they cover
\* that have a check-in time, and 0 when there is none.
C25_MeanWaitOverTimedPatients ==
    \A c \in Clients :
        (/\ pc[c] = "done"
         /\ call[c].op \in {"getStatistics", "updateStatistics"}
         /\ result[c].success)
        => LET pool == IF call[c].op = "getStatistics"
                       THEN DOMAIN patients ELSE WaitingPatients
               timed == {p \in pool : patients[p].checkInTime # Null}
           IN  result[c].data.averageWaitTime =
                  IF timed = {} THEN 0
                  ELSE TotalWait(timed, call[c].now)
                          \div (60000 * Cardinality(timed))

\* C26: the total of getStatistics is the number of patients with status
\* waiting, and equals the totals that updateStatistics and
\* updateStatsFromPatients compute from the same patients.
C26_TotalsCountWaiting ==
    \A c \in Clients :
        (/\ pc[c] = "done" /\ call[c].op = "getStatistics" /\ result[c].success)
        => LET waiting == {p \in DOMAIN patients : patients[p].status = "waiting"}
           IN  /\ result[c].data.totalPatients = Cardinality(waiting)
               /\ result[c].data.totalPatients
                     = updateStatistics(call[c].now).totalPatients
               /\ result[c].data.totalPatients
                     = updateStatsFromPatients(waiting).total

\* C27: the step of addPatient, assignRoom or dischargePatient that writes
\* the audit entry ends the call with success and leaves the patients and
\* the rooms as they are, whether or not the entry was written.
C27_AuditFailureSwallowed ==
    [][\A c \in Clients :
        (pc[c] \in {"add_audit", "as_audit", "dis_audit"} /\ pc'[c] # pc[c])
        => /\ pc'[c] = "done"
           /\ result'[c].success
           /\ patients' = patients
           /\ rooms' = rooms]_vars

\* C27 witness: assignRoom has returned success with both documents written
\* and no audit entry.
C27_Witness ==
    \E c \in Clients :
        /\ Returned(c, "assignRoom")
        /\ result[c].success
        /\ call[c].logged = NullStr
        /\ call[c].patientId \in DOMAIN patients
        /\ patients[call[c].patientId].assignedRoom = call[c].roomId
        /\ rooms[call[c].roomId].assignedPatientId = call[c].patientId

\* The audit action of an operation, and whether the documents show the
\* writes of a returned call.
AuditActionOf(op) ==
    IF op = "addPatient" THEN "registered"
    ELSE IF op = "assignRoom" THEN "assigned_room"
    ELSE IF op = "dischargePatient" THEN "discharged"
    ELSE NullStr

WritesApplied(c) ==
    LET p == call[c].patientId
        r == call[c].roomId
    IN  IF call[c].op = "addPatient" THEN p \in 1..(nextId - 1)
        ELSE IF call[c].op = "assignRoom"
             THEN /\ p \in DOMAIN patients
                  /\ r \in DOMAIN rooms
                  /\ patients[p].assignedRoom = r
                  /\ rooms[r].assignedPatientId = p
        ELSE /\ p \notin DOMAIN patients
             /\ r \in DOMAIN rooms => rooms[r].assignedPatientId = Null

AuditedOps == {"addPatient", "assignRoom", "dischargePatient"}

\* C30 as stated: a returned addPatient, assignRoom or dischargePatient has
\* written its audit entry if and only if it succeeded with all its
\* patient/room writes applied.
C30_AuditIffWritesApplied ==
    \A c \in Clients :
        (pc[c] = "done" /\ call[c].op \in AuditedOps)
        => (call[c].logged = AuditActionOf(call[c].op)
               <=> (result[c].success /\ WritesApplied(c)))

\* C30 amended: an audit entry is written only by a call that has applied
\* all its patient/room writes and returns success, it is the entry of that
\* operation, and it is written after those writes, as the last step of the
\* call; a call may succeed without an entry.
C30_AuditOnlyAfterWritesApplied ==
    \A c \in Clients :
        call[c].logged # NullStr
        => /\ pc[c] = "done"
           /\ call[c].op \in AuditedOps
           /\ call[c].logged = AuditActionOf(call[c].op)
           /\ result[c].success
           /\ WritesApplied(c)

\* C30 witness: dischargePatient has removed the patient, released the room
\* and written its 'discharged' entry.
C30_Witness ==
    \E c \in Clients :
        /\ Returned(c, "dischargePatient")
        /\ call[c].logged = "discharged"
        /\ call[c].roomId \in DOMAIN rooms
        /\ call[c].prePatient # {}
        /\ WritesApplied(c)

\* C28: no exported operation ends by throwing: what it hands back to its
\* caller is a result with a success flag and a message (for
\* findEarliestAvailableDate, the date when it found one).
C28_FaultsReportedAsResults ==
    \A c \in Clients :
        pc[c] = "done"
        => /\ "throws" \notin DOMAIN result[c]
           /\ "success" \in DOMAIN result[c]
              \/ call[c].op = "findEarliestAvailableDate"

\* C29: whatever startups, registrations and assignments have happened, no
\* room number exists more than once among the rooms.
C29_RoomNumbersUnique ==
    \A r1, r2 \in DOMAIN rooms :
        r1 # r2 => rooms[r1].roomNumber # rooms[r2].roomNumber

\* C31: every release a discharge applies leaves the room available with
\* assignedPatientId, assignedPatientName and assignedTime null; applied to
\* a room already in that state it leaves the room as it was; applying it
\* again to its own outcome changes nothing; and the release of an existing
\* room fails only when the store call itself is rejected.
C31_ReleaseIdempotent ==
    [][\A c \in Clients :
          pc[c] = "dis_updRoom" =>
             LET r == call[c].roomId IN
             /\ pc'[c] = "dis_audit" =>
                   /\ IsReleased(rooms'[r])
                   /\ ReleaseRoomFields(rooms'[r]) = rooms'[r]
                   /\ ReleaseRoomFields(ReleaseRoomFields(rooms[r])) = rooms'[r]
                   /\ IsReleased(rooms[r]) => rooms'[r] = rooms[r]
                   /\ \A q \in DOMAIN rooms \ {r} : rooms'[q] = rooms[q]
             /\ (pc'[c] = "done" /\ r \in DOMAIN rooms) =>
                   result'[c] = Failure(StoreUnavailable)]_vars

\* C31 witness: a discharge has released a room that was available when the
\* discharge was called, and the call went on to its audit entry.
C31_Witness ==
    \E c \in Clients :
       /\ pc[c] = "dis_audit"
       /\ call[c].op = "dischargePatient"
       /\ call[c].roomId \in DOMAIN rooms
       /\ call[c].preRoomStatus = "available"
       /\ IsReleased(rooms[call[c].roomId])

\* C32: a room that is available when assignRoom writes it is in the state
\* addRoom created it in, assignRoom leaves its roomNumber as it was, and
\* the release of a discharge puts the room back into that state: status
\* available, assignedPatientId, assignedPatientName and assignedTime null,
\* roomNumber unchanged.
C32_AssignReleaseRoundTrip ==
    [][\A c \in Clients :
          LET r == call[c].roomId IN
          /\ (pc[c] = "as_updRoom" /\ pc'[c] = "as_audit") =>
                /\ rooms'[r].roomNumber = rooms[r].roomNumber
                /\ rooms[r].status = "available"
                      => rooms[r] = NewRoom(rooms[r].roomNumber)
          /\ (pc[c] = "dis_updRoom" /\ pc'[c] = "dis_audit") =>
                rooms'[r] = NewRoom(rooms[r].roomNumber)]_vars

\* C32 witness: a patient who was waiting has been assigned an available
\* room, and the discharge of that patient has released the room.
C32_Witness ==
    \E c \in Clients :
       /\ pc[c] = "dis_audit"
       /\ call[c].op = "dischargePatient"
       /\ call[c].roomId \in DOMAIN rooms
       /\ call[c].preRoomStatus = "occupied"
       /\ \E d \in call[c].prePatient :
             d.status = "in-treatment" /\ d.assignedRoom = call[c].roomId
       /\ rooms[call[c].roomId] = NewRoom(RoomNumbers[call[c].roomId])

\* C33: a submit whose duplicate lookup was rejected by the store creates no
\* patient record and does not end as a successful registration.
C33_LookupFailureStopsRegistration ==
    \A c \in Clients :
        ("lookupError" \in DOMAIN call[c] /\ call[c].lookupError)
        => /\ call[c].patientId = Null
           /\ pc[c] = "done" => ~result[c].success

\* C34: when an assignRoom has returned success, the patient it assigned,
\* while its assignedRoom is set, references an existing room and carries
\* that room's roomNumber in assignedRoomNumber.
C34_RoomNumberCacheAgrees ==
    \A c \in Clients :
        (Returned(c, "assignRoom") /\ result[c].success)
        => \A p \in DOMAIN patients \cap {call[c].patientId} :
              patients[p].assignedRoom # Null
              => /\ patients[p].assignedRoom \in DOMAIN rooms
                 /\ patients[p].assignedRoomNumber
                       = rooms[patients[p].assignedRoom].roomNumber

\* C35: every client has at most one patients listener and at most one
\* rooms listener registered, and none of either once its page has unloaded.
C35_AtMostOneSubscription ==
    \A c \in Clients :
        /\ Cardinality(call[c].patientListeners) <= 1
        /\ Cardinality(call[c].roomListeners) <= 1
        /\ pc[c] = "unloaded" =>
              call[c].patientListeners = {} /\ call[c].roomListeners = {}

\* C35 witness: a page that has started its real-time updates again, after
\* the first start, holds one patients listener and one rooms listener.
C35_Witness ==
    \E c \in Clients :
        /\ pc[c] = "page_ready"
        /\ call[c].unsubscribePatients > 1
        /\ call[c].patientListeners = {call[c].unsubscribePatients}
        /\ Cardinality(call[c].roomListeners) = 1

\* C36: while no submit in progress had its duplicate lookup rejected, no
\* two patient records have the same name and the same contact.
C36_NoDuplicateRecords ==
    (\A c \in Clients : "lookupError" \in DOMAIN call[c] => ~call[c].lookupError)
    => \A p, q \in DOMAIN patients :
          (patients[p].name = patients[q].name
             /\ patients[p].contact = patients[q].contact) => p = q

\* C37: when a discharge of a patient who was already removed releases its
\* room, that room is not the room of another patient who is in treatment
\* in it.
C37_StaleDischargeKeepsRoom ==
    [][\A c \in Clients :
          (pc[c] = "dis_updRoom" /\ pc'[c] = "dis_audit"
              /\ call[c].prePatient = {})
          => LET r == call[c].roomId IN
             ~ \E q \in DOMAIN patients :
                  /\ q # call[c].patientId
                  /\ rooms[r].assignedPatientId = q
                  /\ patients[q].assignedRoom = r
                  /\ patients[q].status = "in-treatment"]_vars

\* C38: the start time computeTimesForSlotIndex returns for a slot index
\* below the shipped capacity differs from the start time of every other
\* slot index below that capacity.
C38_SlotStartsDistinct ==
    \A c \in Clients :
        (Returned(c, "computeTimesForSlotIndex")
            /\ call[c].slotIndex < ShippedCapacity)
        => \A j \in 0..(ShippedCapacity - 1) :
              j # call[c].slotIndex
              => computeTimesForSlotIndex(j).appointmentStartTime
                    # result[c].value.appointmentStartTime

\* C39: the list the waiting query delivers has every red patient before
\* every yellow one and every yellow one before every green one, and
\* renderQueue's sort leaves it in the order it was delivered in.
C39_QueryOrderIsQueueOrder ==
    \A c \in Clients :
        Returned(c, "getWaitingPatients")
        => LET list == result[c].value IN
           /\ \A i, j \in 1..Len(list) :
                 i < j => priorityOrder[list[i].priority]
                             <= priorityOrder[list[j].priority]
           /\ sortedPatients(list) = list

\* C40: when the caller has no call in progress, no trigger run is pending
\* and none is running, statistics/current equals the statistics computed
\* from the patients and the rooms as they are.
C40_CachedStatisticsCurrent ==
    (/\ pc[Caller] \in {"idle", "done"}
     /\ pc[FunctionsRuntime] = "idle"
     /\ call[FunctionsRuntime].seen = patients)
    => call[FunctionsRuntime].statistics = updateStatistics(TriggerNow)

====
